---- MODULE Spec2Model ----
(***************************************************************************)
(* A model of the derived-quantity formulas of sharpie (hull.rs, engine.rs, *)
(* lib.rs): the Hull's paired optional fields and their setters, the        *)
(* accessors that return the stored value or derive the missing one, the    *)
(* guarded formulas, and the year curves of the engine and of the ship.     *)
(*                                                                          *)
(* Numbers.  An f64 is a record:                                            *)
(*   k = "fin"  the number (n + w*K) / (d + v*K) + u*U, where K = 2^32      *)
(*              stands for the modulus of u32 arithmetic (w and v are 0     *)
(*              unless a wrapped u32 difference entered the computation)    *)
(*              and U = 2^-53 is half the distance from 1.0 to the next     *)
(*              binary64 number (u is 0 unless tan() entered it);           *)
(*   k = "inf"  +infinity (n = 1) or -infinity (n = -1);                    *)
(*   k = "nan"  not-a-number;                                               *)
(*   k = "stack_overflow", "panic"  the evaluation aborted the process.     *)
(* Division by zero, comparisons and min/max follow IEEE-754 / Rust.        *)
(* Sums and products of an integer and a value with u # 0 are rounded to    *)
(* binary64 (to nearest, ties to even); the other values used are taken to  *)
(* be computed exactly.  Signed zeros are one zero.                         *)
(***************************************************************************)
EXTENDS Integers, Sequences, FiniteSets, TLC

VARIABLES hull, engine, ship_year, ship, lastCbD, lastLen, call

vars == <<hull, engine, ship_year, ship, lastCbD, lastLen, call>>

(***************************************************************************)
(* f64 values                                                              *)
(***************************************************************************)
Abs(x) == IF x < 0 THEN -x ELSE x

RECURSIVE GCD(_, _)
GCD(a, b) == IF b = 0 THEN a ELSE GCD(b, a % b)

Special(kind, sgn) ==
    [k |-> kind, n |-> sgn, w |-> 0, d |-> 0, v |-> 0, u |-> 0]

NaN == Special("nan", 0)

PosInf == Special("inf", 1)

NegInf == Special("inf", -1)

StackOverflow == Special("stack_overflow", 0)

Panic == Special("panic", 0)

None == Special("none", 0)

Unsupported == CHOOSE x \in {} : TRUE

\* The element of a one-element set.  An operator below binds its operands
\* through it, so that each is evaluated once, as the arguments of a call are.
Only(S) == CHOOSE x \in S : TRUE

\* (n + w*K) / (d + v*K) in canonical form; the denominator is not zero.
Mk(n0, w0, d0, v0) ==
    Only({
        LET gn == GCD(Abs(n), Abs(w))
            gd == GCD(Abs(d), Abs(v))
            sd == IF v < 0 \/ (v = 0 /\ d < 0) THEN -1 ELSE 1
        IN IF gn = 0
           THEN [k |-> "fin", n |-> 0, w |-> 0, d |-> 1, v |-> 0, u |-> 0]
           ELSE LET sn == IF w < 0 \/ (w = 0 /\ n < 0) THEN -1 ELSE 1
                    g  == GCD(gn, gd)
                IN IF (sn * n) \div gn = (sd * d) \div gd
                      /\ (sn * w) \div gn = (sd * v) \div gd
                   THEN \* numerator and denominator are proportional: K-free
                        [k |-> "fin", n |-> sn * (gn \div g), w |-> 0,
                         d |-> gd \div g, v |-> 0, u |-> 0]
                   ELSE [k |-> "fin", n |-> (sd * n) \div g, w |-> (sd * w) \div g,
                         d |-> (sd * d) \div g, v |-> (sd * v) \div g, u |-> 0]
        : n \in {n0}, w \in {w0}, d \in {d0}, v \in {v0}})

Fin(n, d) == Mk(n, 0, d, 0)

FInt(i) == Fin(i, 1)

Zero == FInt(0)

One == FInt(1)

IsAbort(a) == a.k \in {"stack_overflow", "panic"}

IsFinite(a) == a.k = "fin"

IsPlain(a) == a.k = "fin" /\ a.w = 0 /\ a.v = 0 /\ a.u = 0

\* An integer plus a number of units U.
IsInt(a) == a.k = "fin" /\ a.w = 0 /\ a.v = 0 /\ a.d = 1

RECURSIVE Log2(_)
\* The exponent of the largest power of two that is at most m, for m >= 1.
Log2(m) == IF m < 2 THEN 0 ELSE 1 + Log2(m \div 2)

RECURSIVE Pow2(_)
Pow2(e) == IF e = 0 THEN 1 ELSE 2 * Pow2(e - 1)

\* The binary64 number nearest to n + u*U, for an integer n and |u*U| < 1/2:
\* in the binade [2^e, 2^(e+1)) neighbours are 2^(e-52) = 2^(e+1) * U apart,
\* and a tie goes to the neighbour whose last mantissa bit is 0.
RoundF64(n0, u0) ==
    Only({
        IF n = 0 \/ u = 0
        THEN [k |-> "fin", n |-> n, w |-> 0, d |-> 1, v |-> 0, u |-> u]
        ELSE LET m     == Abs(n)
                 e0    == Log2(m)
                 below == Pow2(e0) = m /\ ((n > 0 /\ u < 0) \/ (n < 0 /\ u > 0))
                 e     == IF below THEN e0 - 1 ELSE e0
                 s     == Pow2(e + 1)
                 q     == u \div s
                 r     == u % s
                 up    == 2 * r > s \/ (2 * r = s /\ q % 2 = 1)
             IN [k |-> "fin", n |-> n, w |-> 0, d |-> 1, v |-> 0,
                 u |-> (IF up THEN q + 1 ELSE q) * s]
        : n \in {n0}, u \in {u0}})

\* n + u*U for an integer n, where that is a binary64 number.
FUlps(n, u) == [k |-> "fin", n |-> n, w |-> 0, d |-> 1, v |-> 0, u |-> u]

\* The sign of a + b*K for 32-bit a and b.
LinSign(a, b) ==
    IF b > 0 THEN 1 ELSE IF b < 0 THEN -1
    ELSE IF a > 0 THEN 1 ELSE IF a < 0 THEN -1 ELSE 0

Sign(a) ==
    IF a.k # "fin" THEN a.n
    ELSE IF LinSign(a.n, a.w) # 0 THEN LinSign(a.n, a.w)
    ELSE LinSign(a.u, 0)

FNeg(a0) ==
    Only({
        IF a.k = "fin" THEN [Mk(-a.n, -a.w, a.d, a.v) EXCEPT !.u = -a.u]
        ELSE IF a.k = "inf" THEN Special("inf", -a.n)
        ELSE a
        : a \in {a0}})

FAdd(a0, b0) ==
    Only({
        IF IsAbort(a) THEN a
        ELSE IF IsAbort(b) THEN b
        ELSE IF a.k = "nan" \/ b.k = "nan" THEN NaN
        ELSE IF a.k = "inf" THEN (IF b.k = "inf" /\ b.n # a.n THEN NaN ELSE a)
        ELSE IF b.k = "inf" THEN b
        ELSE IF a.u # 0 \/ b.u # 0
             THEN (IF IsInt(a) /\ IsInt(b) THEN RoundF64(a.n + b.n, a.u + b.u)
                   ELSE Unsupported)
        ELSE IF a.v = 0 /\ b.v = 0
             THEN LET g  == GCD(a.d, b.d)
                      ma == b.d \div g
                      mb == a.d \div g
                  IN Mk(a.n * ma + b.n * mb, a.w * ma + b.w * mb, a.d * ma, 0)
        ELSE IF IsPlain(b)
             THEN Mk(b.d * a.n + b.n * a.d, b.d * a.w + b.n * a.v,
                     b.d * a.d, b.d * a.v)
        ELSE IF IsPlain(a)
             THEN Mk(a.d * b.n + a.n * b.d, a.d * b.w + a.n * b.v,
                     a.d * b.d, a.d * b.v)
        ELSE Unsupported
        : a \in {a0}, b \in {b0}})

FSub(a, b) == FAdd(a, FNeg(b))

FMul(a0, b0) ==
    Only({
        IF IsAbort(a) THEN a
        ELSE IF IsAbort(b) THEN b
        ELSE IF a.k = "nan" \/ b.k = "nan" THEN NaN
        ELSE IF a.k = "inf" \/ b.k = "inf"
             THEN (IF Sign(a) * Sign(b) = 0 THEN NaN
                   ELSE Special("inf", Sign(a) * Sign(b)))
        ELSE IF Sign(a) = 0 \/ Sign(b) = 0 THEN Zero
        ELSE IF a.u # 0 \/ b.u # 0
             THEN (IF IsInt(a) /\ IsInt(b) /\ (a.u = 0 \/ b.u = 0)
                   THEN RoundF64(a.n * b.n, a.n * b.u + b.n * a.u)
                   ELSE Unsupported)
        ELSE IF IsPlain(a) /\ IsPlain(b)
             THEN Only({Mk((a.n \div g[1]) * (b.n \div g[2]), 0,
                           (a.d \div g[2]) * (b.d \div g[1]), 0)
                        : g \in {<<GCD(Abs(a.n), b.d), GCD(Abs(b.n), a.d)>>}})
        ELSE IF IsPlain(b) THEN Mk(b.n * a.n, b.n * a.w, b.d * a.d, b.d * a.v)
        ELSE IF IsPlain(a) THEN Mk(a.n * b.n, a.n * b.w, a.d * b.d, a.d * b.v)
        ELSE Unsupported
        : a \in {a0}, b \in {b0}})

\* 1 / b for a finite b that is not zero.
Recip(b0) ==
    Only({
    Mk(b.d, b.v, b.n, b.w)
        : b \in {b0}})

FDiv(a0, b0) ==
    Only({
        IF IsAbort(a) THEN a
        ELSE IF IsAbort(b) THEN b
        ELSE IF a.k = "nan" \/ b.k = "nan" THEN NaN
        ELSE IF a.k = "inf"
             THEN (IF b.k = "inf" THEN NaN
                   ELSE Special("inf", IF Sign(b) < 0 THEN -a.n ELSE a.n))
        ELSE IF b.k = "inf" THEN Zero
        ELSE IF Sign(b) = 0
             THEN (IF Sign(a) = 0 THEN NaN ELSE Special("inf", Sign(a)))
        ELSE IF a.u # 0 \/ b.u # 0 THEN Unsupported
        ELSE FMul(a, Recip(b))
        : a \in {a0}, b \in {b0}})

\* The sign of c0 + c1*K + c2*K^2 for 32-bit coefficients.
QuadSign(c0, c1, c2) ==
    IF c2 > 0 THEN 1 ELSE IF c2 < 0 THEN -1 ELSE LinSign(c0, c1)

\* The sign of a - b for values that are neither NaN nor aborted: the
\* denominators are positive, so it is the sign of the cross difference, and
\* of the difference of the units when that one is zero.
Cmp(a0, b0) ==
    Only({
        Only({IF c # 0 THEN c ELSE LinSign(a.u - b.u, 0)
        : c \in {IF a.k = "inf" THEN (IF b.k = "inf" THEN a.n - b.n ELSE a.n)
                 ELSE IF b.k = "inf" THEN -b.n
                 ELSE IF a.v = 0 /\ b.v = 0
                 THEN LET g == GCD(a.d, b.d)
                      IN LinSign(a.n * (b.d \div g) - b.n * (a.d \div g),
                                 a.w * (b.d \div g) - b.w * (a.d \div g))
                 ELSE QuadSign(a.n * b.d - b.n * a.d,
                               a.n * b.v + a.w * b.d - b.n * a.v - b.w * a.d,
                               a.w * b.v - b.w * a.v)}})
        : a \in {a0}, b \in {b0}})

Ordered(a, b) == a.k \in {"fin", "inf"} /\ b.k \in {"fin", "inf"}

FEq(a, b) == Ordered(a, b) /\ Cmp(a, b) = 0

FLt(a, b) == Ordered(a, b) /\ Cmp(a, b) < 0

FLe(a, b) == Ordered(a, b) /\ Cmp(a, b) <= 0

FGt(a, b) == FLt(b, a)

FGe(a, b) == FLe(b, a)

\* f64::max and f64::min: a NaN operand is ignored.
FMax(a0, b0) ==
    Only({
        IF IsAbort(a) THEN a
        ELSE IF IsAbort(b) THEN b
        ELSE IF a.k = "nan" THEN b
        ELSE IF b.k = "nan" THEN a
        ELSE IF Cmp(a, b) >= 0 THEN a ELSE b
        : a \in {a0}, b \in {b0}})

FMin(a0, b0) ==
    Only({
        IF IsAbort(a) THEN a
        ELSE IF IsAbort(b) THEN b
        ELSE IF a.k = "nan" THEN b
        ELSE IF b.k = "nan" THEN a
        ELSE IF Cmp(a, b) <= 0 THEN a ELSE b
        : a \in {a0}, b \in {b0}})

FAbs(a0) ==
    Only({
    IF Sign(a) < 0 THEN FNeg(a) ELSE a
        : a \in {a0}})

(***************************************************************************)
(* Roots: powf(1/3) and sqrt.  A finite positive argument is rounded down   *)
(* to a multiple of 1/100; zero, negative and special arguments are exact.  *)
(***************************************************************************)
RECURSIVE IRoot(_, _, _, _)
\* The largest m in lo..hi with m^r <= x, given lo^r <= x.
IRoot(x, r, lo, hi) ==
    IF lo >= hi THEN lo
    ELSE LET mid == (lo + hi + 1) \div 2
             pw  == IF r = 2 THEN mid * mid ELSE mid * mid * mid
         IN IF pw <= x THEN IRoot(x, r, mid, hi) ELSE IRoot(x, r, lo, mid - 1)

FRoot(a0, r0) ==
    Only({
        IF IsAbort(a) \/ a.k = "nan" THEN a
        ELSE IF a.k = "inf" THEN (IF a.n > 0 \/ r = 3 THEN PosInf ELSE NaN)
        ELSE IF Sign(a) = 0 THEN Zero
        ELSE IF Sign(a) < 0 THEN NaN
        ELSE IF ~IsPlain(a) THEN Unsupported
        ELSE IF r = 2 THEN Fin(IRoot((a.n * 10000) \div a.d, 2, 0, 46340), 100)
        ELSE Fin(IRoot((a.n * 1000000) \div a.d, 3, 0, 1290), 100)
        : a \in {a0}, r \in {r0}})

\* f64::sqrt
FSqrt(a) == FRoot(a, 2)

\* f64::powf(1.0/3.0)
FCbrt(a) == FRoot(a, 3)

\* f64::powf(p) for the exponents the formulas use: 0 and 1 (exact, x^0 is 1
\* for every x), 1/2 and 2/3 (through the rounded roots), 3, 4, and 1.83 from
\* its values at the speeds drawn: 10^1.83 = 67.608..., 16^1.83 = 159.786...,
\* 25^1.83 = 361.601...
Powf(a0, p0) ==
    Only({
        IF IsAbort(a) THEN a
        ELSE IF p = Zero THEN One
        ELSE IF a.k = "nan" THEN NaN
        ELSE IF p = One THEN a
        ELSE IF p = FInt(3) THEN FMul(FMul(a, a), a)
        ELSE IF p = FInt(4) THEN Only({FMul(sq, sq) : sq \in {FMul(a, a)}})
        ELSE IF a.k = "inf" THEN PosInf
        ELSE IF Sign(a) = 0 THEN Zero
        ELSE IF Sign(a) < 0 THEN NaN
        ELSE IF p = Fin(1, 2) THEN FSqrt(a)
        ELSE IF p = Fin(2, 3) THEN Only({FMul(c, c) : c \in {FCbrt(a)}})
        ELSE IF p # Fin(183, 100) THEN Unsupported
        ELSE IF a = One THEN One
        ELSE IF a = FInt(10) THEN Fin(6760, 100)
        ELSE IF a = FInt(16) THEN Fin(15978, 100)
        ELSE IF a = FInt(25) THEN Fin(36160, 100)
        ELSE Unsupported
        : a \in {a0}, p \in {p0}})

(***************************************************************************)
(* Hull (hull.rs)                                                          *)
(***************************************************************************)
\* Frames available to the mutually recursive accessors before the process
\* aborts with a stack overflow.
MaxStack == 6

FT3_PER_TON_SEA == 35

Hull_default ==
    [cb |-> None, d |-> None, lwl |-> None, loa |-> None,
     b |-> Zero, bb |-> Zero, t |-> Zero,
     bow_type |-> [kind |-> "Normal", len |-> Zero],
     boxy |-> FALSE,
     stern_type |-> "Cruiser",
     stern_overhang |-> Zero, fc_len |-> Zero, fc_fwd |-> Zero, fc_aft |-> Zero,
     fd_len |-> Zero, fd_fwd |-> Zero, fd_aft |-> Zero, ad_fwd |-> Zero,
     ad_aft |-> Zero, qd_fwd |-> Zero, bow_angle |-> Zero]

BowType_ram_len(bow) == IF bow.kind = "Ram" THEN bow.len ELSE Zero

\* f64::tan(angle * PI / 180.0) for the angles of BowAngles below 90 degrees:
\* 45.0 * PI / 180.0 is the binary64 number 0.7853981633974483, whose tangent
\* rounds to 0.9999999999999999 = 1 - 2^-53; tan is odd.
TanDeg(angle) ==
    CASE angle = Zero -> Zero
      [] angle = FInt(45) -> FUlps(1, -1)
      [] angle = FInt(-45) -> FUlps(-1, 1)

Hull_stem_len(h) ==
    IF FGe(FAbs(h.bow_angle), FInt(90)) THEN Zero
    ELSE FMul(h.fc_fwd, TanDeg(h.bow_angle))

Hull_set_cb(h, x) == [h EXCEPT !.cb = x, !.d = None]

\* set_d without the line that clears the stored block coefficient.
Hull_set_d_keeps_cb(h, x) == [h EXCEPT !.d = x]

Hull_set_d(h, x) == [h EXCEPT !.d = x, !.cb = None]

Hull_set_lwl(h, len) == [h EXCEPT !.lwl = len, !.loa = None]

Hull_set_loa(h, len) == [h EXCEPT !.loa = len, !.lwl = None]

\* Vec<String>::join(sep)
RECURSIVE Join(_, _)
Join(s, sep) ==
    IF s = <<>> THEN ""
    ELSE IF Len(s) = 1 THEN s[1]
    ELSE s[1] \o sep \o Join(Tail(s), sep)

\* freeboard_desc() with the last test written as the else of the one
\* before it.
Hull_freeboard_desc_else(h) ==
    IF FEq(h.fc_aft, h.fd_fwd) /\ FEq(h.fd_aft, h.ad_fwd) /\ FEq(h.ad_aft, h.qd_fwd)
    THEN Join(<<"flush deck">>, ", ")
    ELSE Join((IF FGt(h.fc_aft, h.fd_fwd) THEN <<"raised forecastle">>
               ELSE IF FLt(h.fc_aft, h.fd_fwd) THEN <<"low forecastle">>
               ELSE <<>>)
              \o (IF FGt(h.fd_aft, h.ad_fwd) THEN <<"rise forward of midbreak">>
                  ELSE IF FLt(h.fd_aft, h.ad_fwd) THEN <<"rise aft of midbreak">>
                  ELSE <<>>)
              \o (IF FGt(h.ad_aft, h.qd_fwd) THEN <<"low quarterdeck">>
                  ELSE <<"raised quarterdeck">>), ", ")

Hull_freeboard_desc(h) ==
    IF FEq(h.fc_aft, h.fd_fwd) /\ FEq(h.fd_aft, h.ad_fwd) /\ FEq(h.ad_aft, h.qd_fwd)
    THEN Join(<<"flush deck">>, ", ")
    ELSE Join((IF FGt(h.fc_aft, h.fd_fwd) THEN <<"raised forecastle">>
               ELSE IF FLt(h.fc_aft, h.fd_fwd) THEN <<"low forecastle">>
               ELSE <<>>)
              \o (IF FGt(h.fd_aft, h.ad_fwd) THEN <<"rise forward of midbreak">>
                  ELSE IF FLt(h.fd_aft, h.ad_fwd) THEN <<"rise aft of midbreak">>
                  ELSE <<>>)
              \o (IF FGt(h.ad_aft, h.qd_fwd) THEN <<"low quarterdeck">> ELSE <<>>)
              \o (IF FLt(h.ad_aft, h.qd_fwd) THEN <<"raised quarterdeck">>
                  ELSE <<>>), ", ")

\* Average foredeck and afterdeck heights.
Hull_fd(h) == FAdd(h.fd_fwd, FMul(FSub(h.fd_aft, h.fd_fwd), Fin(1, 2)))

Hull_ad(h) == FAdd(h.ad_fwd, FMul(FSub(h.ad_aft, h.ad_fwd), Fin(1, 2)))

\* Hull::set_shafts has callers only (engine.rs 50, armor.rs 402); its body
\* is taken from the description of Hull: boxy is maintained by the caller
\* and is not derived from the shaft count.
Hull_set_shafts(h, shafts) == h

Hull_lwl(h) ==
    IF h.lwl = None /\ h.loa = None THEN Zero
    ELSE IF h.lwl # None THEN h.lwl
    ELSE FSub(FSub(h.loa,
                   FMax(FMax(BowType_ram_len(h.bow_type), Hull_stem_len(h)), Zero)),
              FMax(h.stern_overhang, Zero))

\* loa() derived from lwl without the stern overhang.
Hull_loa_no_overhang(h) ==
    IF h.loa = None /\ h.lwl = None THEN Zero
    ELSE IF h.loa # None THEN h.loa
    ELSE FAdd(h.lwl, FMax(FMax(BowType_ram_len(h.bow_type), Hull_stem_len(h)), Zero))

Hull_loa(h) ==
    IF h.loa = None /\ h.lwl = None THEN Zero
    ELSE IF h.loa # None THEN h.loa
    ELSE FAdd(FAdd(h.lwl,
                   FMax(FMax(BowType_ram_len(h.bow_type), Hull_stem_len(h)), Zero)),
              FMax(h.stern_overhang, Zero))

\* cb_calc without the upper clamp .min(1.0).
Hull_cb_calc_no_min(h, d, t) ==
    Only({IF FEq(volume, Zero) THEN Zero
          ELSE FMax(FDiv(FMul(d, FInt(FT3_PER_TON_SEA)), volume), Zero)
          : volume \in {FMul(FMul(Hull_lwl(h), h.bb), t)}})

Hull_cb_calc(h, d, t) ==
    Only({IF FEq(volume, Zero) THEN Zero
          ELSE FMax(FMin(FDiv(FMul(d, FInt(FT3_PER_TON_SEA)), volume), One), Zero)
          : volume \in {FMul(FMul(Hull_lwl(h), h.bb), t)}})

\* d_calc without the draft.
Hull_d_calc_no_draft(h, cb) ==
    FDiv(FMul(FMul(cb, Hull_lwl(h)), h.bb), FInt(FT3_PER_TON_SEA))

Hull_d_calc(h, cb) ==
    FDiv(FMul(FMul(FMul(cb, Hull_lwl(h)), h.bb), h.t), FInt(FT3_PER_TON_SEA))

\* cb() and d() call each other when the value is not stored; `stack` is the
\* number of frames left.
RECURSIVE Hull_cb_rec(_, _), Hull_d_rec(_, _)
Hull_cb_rec(h, stack) ==
    IF stack = 0 THEN StackOverflow
    ELSE IF h.cb # None THEN h.cb
    ELSE Only({IF IsAbort(dv) THEN dv ELSE Hull_cb_calc(h, dv, h.t)
               : dv \in {Hull_d_rec(h, stack - 1)}})

Hull_d_rec(h, stack) ==
    IF stack = 0 THEN StackOverflow
    ELSE IF h.d # None THEN h.d
    ELSE Only({IF IsAbort(cv) THEN cv ELSE Hull_d_calc(h, cv)
               : cv \in {Hull_cb_rec(h, stack - 1)}})

Hull_cb(h) == Hull_cb_rec(h, MaxStack)

Hull_d(h) == Hull_d_rec(h, MaxStack)

Hull_cs(h) ==
    IF FEq(Hull_lwl(h), Zero) THEN Zero
    ELSE FMul(FMul(Fin(4, 10),
                   FCbrt(FMul(FDiv(h.bb, Hull_lwl(h)), FInt(6)))),
              FSqrt(FDiv(Hull_cb(h), Fin(52, 100))))

\* ws() without the guard on the draft.
Hull_ws_unguarded(h) ==
    FAdd(FMul(FMul(Hull_lwl(h), h.t), Fin(17, 10)),
         FDiv(FMul(Hull_d(h), FInt(FT3_PER_TON_SEA)), h.t))

Hull_ws(h) ==
    IF FEq(h.t, Zero) THEN Zero
    ELSE FAdd(FMul(FMul(Hull_lwl(h), h.t), Fin(17, 10)),
              FDiv(FMul(Hull_d(h), FInt(FT3_PER_TON_SEA)), h.t))

\* SternType::leff without the guard on cs.
SternType_leff_unguarded(stern, lwl, bb, cs) ==
    IF stern = "TransomSm" THEN FAdd(FDiv(FMul(bb, Fin(1, 2)), cs), lwl)
    ELSE IF stern = "TransomLg" THEN FAdd(FDiv(bb, cs), lwl)
    ELSE lwl

SternType_leff(stern, lwl, bb, cs) ==
    IF IsAbort(cs) THEN cs
    ELSE IF FEq(cs, Zero) THEN Zero
    ELSE IF stern = "TransomSm" THEN FAdd(FDiv(FMul(bb, Fin(1, 2)), cs), lwl)
    ELSE IF stern = "TransomLg" THEN FAdd(FDiv(bb, cs), lwl)
    ELSE lwl

Hull_leff(h) ==
    Only({SternType_leff(h.stern_type, Hull_lwl(h), h.bb, cs)
          : cs \in {Hull_cs(h)}})

(***************************************************************************)
(* Engine and BoilerType (engine.rs), Ship (lib.rs)                        *)
(*                                                                          *)
(* `checks` is the build's overflow-checks setting: with it a u32           *)
(* subtraction that underflows panics, without it the difference wraps      *)
(* modulo 2^32.                                                             *)
(***************************************************************************)
U32Sub(a, b, checks) ==
    IF a >= b THEN FInt(a - b)
    ELSE IF checks THEN Panic
    ELSE Mk(a - b, 1, 1, 0)

Engine_default ==
    [year |-> 0, fuel |-> {}, boiler |-> {}, drive |-> {}, vcruise |-> Zero,
     range |-> 0, shafts |-> 0, pct_coal |-> Zero]

\* set_shafts() setting hull.boxy itself from the shaft count.
Engine_set_shafts_boxy(e, h, shafts) ==
    [hull |-> [Hull_set_shafts(h, shafts) EXCEPT !.boxy = (shafts < 2)],
     engine |-> [e EXCEPT !.shafts = shafts], res |-> shafts]

\* The hull and the engine after set_shafts(shafts, hull), and what it
\* returns.
Engine_set_shafts(e, h, shafts) ==
    [hull |-> Hull_set_shafts(h, shafts),
     engine |-> [e EXCEPT !.shafts = shafts], res |-> shafts]

RANGE == 7000

FuelType_is_steam(fuel) == "Coal" \in fuel \/ "Oil" \in fuel

BoilerType_is_simple(boiler) == "Simple" \in boiler

BoilerType_is_complex(boiler) == "Complex" \in boiler

BoilerType_is_reciprocating(boiler) ==
    BoilerType_is_simple(boiler) \/ BoilerType_is_complex(boiler)

BoilerType_is_turbine(boiler) == "Turbine" \in boiler

BoilerType_bunker_factor(boiler, year, checks) ==
    IF BoilerType_is_reciprocating(boiler)
    THEN FSub(One, FDiv(U32Sub(1910, year, checks), FInt(70)))
    ELSE IF year < 1898
    THEN FSub(One, FDiv(U32Sub(1910, year, checks), FInt(70)))
    ELSE IF year < 1920
    THEN FAdd(One, FDiv(U32Sub(year, 1910, checks), FInt(20)))
    ELSE IF year < 1950
    THEN FAdd(Fin(15, 10), FDiv(U32Sub(year, 1920, checks), FInt(60)))
    ELSE FInt(2)

\* The three terms a, b and c of d_engine_factor.
DEF_simple(boiler, year, checks) ==
    IF BoilerType_is_simple(boiler)
    THEN IF year <= 1884
         THEN FAdd(Fin(12, 10), FMul(U32Sub(year, 1860, checks), Fin(5, 100)))
         ELSE IF year <= 1949
         THEN FAdd(Fin(245, 100), FMul(U32Sub(year, 1885, checks), Fin(25, 1000)))
         ELSE Fin(4075, 1000)
    ELSE Zero

DEF_complex(boiler, year, checks) ==
    IF BoilerType_is_complex(boiler)
    THEN IF year <= 1905
         THEN FAdd(Fin(12, 10), FMul(U32Sub(year, 1860, checks), Fin(5, 100)))
         ELSE IF year <= 1910
         THEN FAdd(Fin(35, 10), U32Sub(year, 1906, checks))
         ELSE IF year <= 1949
         THEN FAdd(Fin(75, 10), FMul(U32Sub(year, 1910, checks), Fin(25, 1000)))
         ELSE Fin(85, 10)
    ELSE Zero

DEF_turbine(boiler, year, fuel, checks) ==
    IF BoilerType_is_turbine(boiler) \/ ~FuelType_is_steam(fuel)
    THEN IF year <= 1897
         THEN FAdd(Fin(12, 10), FMul(U32Sub(year, 1860, checks), Fin(5, 100)))
         ELSE IF year <= 1902
         THEN FAdd(One, FMul(U32Sub(year, 1898, checks), Fin(5, 10)))
         ELSE IF year <= 1909
         THEN FAdd(FInt(4), U32Sub(year, 1903, checks))
         ELSE IF year <= 1949
         THEN FAdd(FInt(11), FMul(U32Sub(year, 1910, checks), Fin(2, 10)))
         ELSE FInt(19)
    ELSE Zero

BoilerType_d_engine_factor(boiler, year, fuel, checks) ==
    FAdd(FAdd(DEF_simple(boiler, year, checks), DEF_complex(boiler, year, checks)),
         DEF_turbine(boiler, year, fuel, checks))

\* Engine::bunker; hp_cruise stands for self.hp_cruise(d, lwl, leff, cs, ws),
\* whose fractional powers are not computed here.
Engine_bunker(e, d, hp_cruise, checks) ==
    IF FEq(e.vcruise, Zero) THEN Zero
    ELSE LET bunker1 == FDiv(FInt(e.range),
                             FAdd(One, FMul(Fin(4, 10), FSub(One, e.pct_coal))))
             bunker2 == FDiv(bunker1,
                             BoilerType_bunker_factor(e.boiler, e.year, checks))
         IN FAdd(FDiv(bunker2,
                      FMul(FMul(FMul(FDiv(Fin(18, 10), hp_cruise), FInt(RANGE)),
                                e.vcruise),
                           Fin(1, 10))),
                 FMul(d, Fin(5, 1000)))

(***************************************************************************)
(* Display of FuelType, BoilerType and DriveType.  A flag value is the set  *)
(* of its bits, "bit7" being a bit without a name; bitflags_match! takes    *)
(* the first arm the value is equal to.  The string written is the record   *)
(* [error, text]: text alone, or "ERROR: " followed by text.                *)
(***************************************************************************)
Text(t) == [error |-> FALSE, text |-> t]

ErrorText(t) == [error |-> TRUE, text |-> t]

FuelType_fmt(fuel) ==
    CASE fuel = {"Coal"} -> Text("Coal fired boilers")
      [] fuel = {"Oil"} -> Text("Oil fired boilers")
      [] fuel = {"Coal", "Oil"} -> Text("Coal and oil fired boilers")
      [] fuel = {"Coal", "Diesel"} -> Text("Coal fired boilers plus diesel motors")
      [] fuel = {"Oil", "Diesel"} -> Text("Oil fired boilers plus diesel motors")
      [] fuel = {"Coal", "Oil", "Diesel"} ->
             Text("Coal and oil fired boilers plus diesel motors")
      [] fuel = {"Diesel"} -> Text("Diesel internal combustion motors")
      [] fuel = {"Diesel", "Battery"} ->
             Text("Diesel internal combustion engines plus batteries")
      [] fuel = {"Gasoline"} -> Text("Gasoline internal combustion motors")
      [] fuel = {"Gasoline", "Battery"} ->
             Text("Gasoline internal combustion motors plus batteries")
      [] fuel = {"Battery"} -> Text("Battery powered")
      [] OTHER -> ErrorText("Revise fuels")

\* The Display of BoilerType with its last arm writing a plain string.
BoilerType_fmt_plain_fallback(boiler) ==
    IF boiler = {"Simple", "Complex", "Turbine"}
    THEN ErrorText("Too many types of steam engines")
    ELSE Text("No steam engines")

BoilerType_fmt(boiler) ==
    CASE boiler = {"Simple"} -> Text("simple receiprocating steam engines")
      [] boiler = {"Complex"} -> Text("complex receiprocating steam engines")
      [] boiler = {"Turbine"} -> Text("steam turbines")
      [] boiler = {"Simple", "Complex"} -> Text("reciprocating steam engines")
      [] boiler = {"Simple", "Turbine"} ->
             Text("reciprocating cruising steam engines and steam turbines")
      [] boiler = {"Simple", "Complex", "Turbine"} ->
             ErrorText("Too many types of steam engines")
      [] OTHER -> ErrorText("No steam engines")

DriveType_fmt(drive) ==
    CASE drive = {"Direct"} -> Text("Direct drive")
      [] drive = {"Geared"} -> Text("Geared drive")
      [] drive = {"Electric"} -> Text("Electric motors")
      [] drive = {"Hydraulic"} -> Text("Hydraulic drive")
      [] drive = {"Geared", "Electric"} ->
             Text("Electric cruising motors plus geared drives")
      [] drive = {} -> ErrorText("No drive to shaft")
      [] OTHER -> ErrorText("Revise drives")

(***************************************************************************)
(* Engine::hp.  The divisor 184.1666667 is kept as 1105/6, which it equals  *)
(* to ten significant digits.                                               *)
(***************************************************************************)
\* The length hp() uses: shortened below 15 knots, leff from 25 knots on.
Engine_len_hp(v, lwl, leff) ==
    IF FLe(v, FInt(15)) THEN FSub(lwl, FSub(leff, lwl))
    ELSE IF FGe(v, FInt(25)) THEN leff
    ELSE FAdd(FMul(FSub(leff, lwl), FDiv(FSub(v, FInt(20)), FInt(5))), lwl)

\* The horsepower before the scaling of early engines.
Engine_hp_base(v, d, len_hp, cs, ws) ==
    FDiv(FMul(FAdd(FMul(FMul(FDiv(Powf(d, Fin(2, 3)), len_hp), cs), Powf(v, FInt(4))),
                   FMul(FMul(Fin(1, 100), ws), Powf(v, Fin(183, 100)))),
              v),
         Fin(1105, 6))

\* hp() with the scaling of early engines ending one year sooner.
Engine_hp_before_1889(e, v, d, lwl, leff, cs, ws) ==
    Only({
        IF FEq(len_hp, Zero) THEN Zero
        ELSE FMul(Engine_hp_base(v, d, len_hp, cs, ws),
                  IF e.year < 1889
                  THEN FAdd(One, FDiv(FInt(1890 - e.year), FInt(100)))
                  ELSE One)
        : len_hp \in {Engine_len_hp(v, lwl, leff)}})

Engine_hp(e, v, d, lwl, leff, cs, ws) ==
    Only({
        IF FEq(len_hp, Zero) THEN Zero
        ELSE FMul(Engine_hp_base(v, d, len_hp, cs, ws),
                  IF e.year < 1890
                  THEN FAdd(One, FDiv(FInt(1890 - e.year), FInt(100)))
                  ELSE One)
        : len_hp \in {Engine_len_hp(v, lwl, leff)}})

(***************************************************************************)
(* Belt (armor.rs)                                                          *)
(***************************************************************************)
Armor_INCH == Fin(37, 2000)

Belt_new(kind) == [thick |-> Zero, len |-> Zero, hgt |-> Zero, kind |-> kind]

\* wgt() with the taper term added for every kind of belt.
Belt_wgt_taper_all(belt, lwl, cwp, b) ==
    FMul(FMul(FMul(FMul(FAdd(belt.len,
                             FMul(Powf(FSub(One, FDiv(belt.len, lwl)),
                                       FSub(One, cwp)), b)),
                        belt.hgt), belt.thick), Armor_INCH), FInt(2))

Belt_wgt(belt, lwl, cwp, b) ==
    Only({FMul(FMul(FMul(FMul(FAdd(belt.len, extra), belt.hgt), belt.thick),
                    Armor_INCH), FInt(2))
          : extra \in {IF belt.kind \in {"Main", "Upper"}
                       THEN FMul(Powf(FSub(One, FDiv(belt.len, lwl)),
                                      FSub(One, cwp)), b)
                       ELSE Zero}})

(***************************************************************************)
(* SubBattery (weapons.rs).  A u32 is the record [top, low] standing for    *)
(* top * 2^31 + low, an i32 the record [k |-> "i32", n]; `checks` is the    *)
(* build's overflow-checks setting, as for U32Sub.                          *)
(***************************************************************************)
MaxI32 == 2147483647

MinI32 == -MaxI32 - 1

U32(top, low) == [top |-> top, low |-> low]

I32(n) == [k |-> "i32", n |-> n]

\* x * 2 in u32
U32Double(x, checks) ==
    IF x.top = 1 /\ checks THEN Panic
    ELSE IF x.low > MaxI32 \div 2
         THEN U32(1, 2 * (x.low - MaxI32 \div 2 - 1))
         ELSE U32(0, 2 * x.low)

\* x as i32
AsI32(x) == IF x.top = 0 THEN x.low ELSE MinI32 + x.low

\* a + b in i32
I32Add(a, b, checks) ==
    IF b >= 0
    THEN IF a <= MaxI32 - b THEN I32(a + b)
         ELSE IF checks THEN Panic ELSE I32((a + MinI32) + (b + MinI32))
    ELSE IF a >= MinI32 - b THEN I32(a + b)
         ELSE IF checks THEN Panic ELSE I32((a - MinI32) + (b - MinI32))

\* a - b in i32
I32Sub(a, b, checks) ==
    IF b >= 0
    THEN IF a >= MinI32 + b THEN I32(a - b)
         ELSE IF checks THEN Panic ELSE I32((a - MinI32) - (b + MinI32))
    ELSE IF a <= MaxI32 + b THEN I32(a - b)
         ELSE IF checks THEN Panic ELSE I32((a + MinI32) - (b - MinI32))

RECURSIVE I32Mul(_, _, _)
\* a * g in i32 for a small g >= 1, as g - 1 additions
I32Mul(a, g, checks) ==
    IF g = 1 THEN I32(a)
    ELSE Only({IF part = Panic THEN Panic ELSE I32Add(part.n, a, checks)
               : part \in {I32Mul(a, g - 1, checks)}})

GunLayoutType_guns_per(layout) ==
    CASE layout = "Single" -> 1
      [] layout \in {"Twin2Row", "Twin", "TwoGun"} -> 2
      [] layout \in {"Triple", "ThreeGun"} -> 3
      [] layout \in {"Quad2Row", "Quad4Row", "Quad", "FourGun"} -> 4
      [] layout \in {"Quint", "FiveGun"} -> 5
      [] layout = "Sex2Row" -> 6
      [] layout = "Oct2Row" -> 8
      [] layout = "Dec2Row" -> 10

SubBattery_default ==
    [layout |-> "Single", distribution |-> "CenterlineEven",
     above |-> U32(0, 0), on |-> U32(0, 0),
     below |-> U32(0, 0), two_mounts_up |-> FALSE, lower_deck |-> FALSE]

SubBattery_super_(sub, checks) ==
    Only({
        IF ab[1] = Panic \/ ab[2] = Panic THEN Panic
        ELSE Only({IF diff = Panic THEN Panic
                   ELSE I32Mul(diff.n, GunLayoutType_guns_per(sub.layout), checks)
                   : diff \in {I32Sub(AsI32(ab[1]), AsI32(ab[2]), checks)}})
        : ab \in {<<IF sub.two_mounts_up THEN U32Double(sub.above, checks)
                    ELSE sub.above,
                    IF sub.lower_deck THEN U32Double(sub.below, checks)
                    ELSE sub.below>>}})

(***************************************************************************)
(* GunDistributionType::mounts_fwd (weapons.rs); tot is a u32 below 2^31,   *)
(* written as an integer.                                                   *)
(***************************************************************************)
\* half() cutting the fraction off instead of rounding.
Half_truncating(n) == n \div 2

\* f64::round(n as f64 / 2.0) as u32: halves round away from zero.
Half(n) == Only({(2 * q.n + q.d) \div (2 * q.d) : q \in {Fin(n, 2)}})

\* mounts_fwd() with SidesAD placed forward among the FD types.
GunDistributionType_mounts_fwd_sides(dist, tot, fwd_len) ==
    CASE dist \in {"CenterlineFDFwd", "CenterlineFD", "CenterlineFDAft",
                   "CenterlineADFwd", "SidesFDFwd", "SidesFD", "SidesFDAft",
                   "SidesAD"} -> tot
      [] dist \in {"CenterlineAD", "CenterlineADAft", "SidesADFwd",
                   "SidesADAft"} -> 0
      [] dist \in {"CenterlineEndsFD", "SidesEndsFD"} ->
             IF tot = 1 THEN tot ELSE Half(tot)
      [] dist \in {"CenterlineEndsAD", "SidesEndsAD"} ->
             IF tot = 1 THEN 0 ELSE tot - Half(tot)
      [] dist \in {"CenterlineEven", "SidesEven"} ->
             IF tot = 1 /\ FGe(fwd_len, Fin(1, 2)) THEN tot
             ELSE IF FGe(fwd_len, Fin(1, 2)) THEN Half(tot)
             ELSE IF tot = 1 /\ FLt(fwd_len, Fin(1, 2)) THEN 0
             ELSE tot - Half(tot)

GunDistributionType_mounts_fwd(dist, tot, fwd_len) ==
    CASE dist \in {"CenterlineFDFwd", "CenterlineFD", "CenterlineFDAft",
                   "CenterlineADFwd", "SidesFDFwd", "SidesFD", "SidesFDAft"} -> tot
      [] dist \in {"CenterlineAD", "CenterlineADAft", "SidesADFwd", "SidesAD",
                   "SidesADAft"} -> 0
      [] dist \in {"CenterlineEndsFD", "SidesEndsFD"} ->
             IF tot = 1 THEN tot ELSE Half(tot)
      [] dist \in {"CenterlineEndsAD", "SidesEndsAD"} ->
             IF tot = 1 THEN 0 ELSE tot - Half(tot)
      [] dist \in {"CenterlineEven", "SidesEven"} ->
             IF tot = 1 /\ FGe(fwd_len, Fin(1, 2)) THEN tot
             ELSE IF FGe(fwd_len, Fin(1, 2)) THEN Half(tot)
             ELSE IF tot = 1 /\ FLt(fwd_len, Fin(1, 2)) THEN 0
             ELSE tot - Half(tot)

\* free(num_mounts, hull) with fwd == mounts_fwd(num_mounts, fc_len + fd_len)
\* passed in.
GunDistributionType_free(dist, num_mounts, fwd0, h) ==
    IF num_mounts = 0 THEN Zero
    ELSE
    Only({
        LET rest == FSub(tot, fwd)
            \* (edge - deck) / n * 0.5 + (edge + deck) * 0.5
            slope(edge, deck, n) ==
                FAdd(FMul(FDiv(FSub(edge, deck), n), Fin(1, 2)),
                     FMul(FAdd(edge, deck), Fin(1, 2)))
        IN CASE dist \in {"CenterlineEven", "SidesEven"} ->
                    FDiv(FAdd(FMul(fwd, fd), FMul(rest, ad)), tot)
             [] dist \in {"CenterlineEndsFD", "CenterlineEndsAD",
                          "SidesEndsFD", "SidesEndsAD"} ->
                    FDiv(FAdd(IF FGt(fwd, Zero)
                              THEN FMul(fwd, slope(h.fd_fwd, fd, fwd))
                              ELSE Zero,
                              FMul(rest,
                                   FAdd(FMul(FDiv(FMul(FSub(h.ad_aft, ad), One),
                                                  rest), Fin(1, 2)),
                                        FMul(FAdd(h.ad_aft, ad), Fin(1, 2))))),
                         tot)
             [] dist \in {"CenterlineFDFwd", "SidesFDFwd"} ->
                    IF FGt(fwd, Zero) THEN slope(h.fd_fwd, fd, fwd) ELSE Zero
             [] dist \in {"CenterlineFD", "SidesFD"} -> fd
             [] dist \in {"CenterlineFDAft", "SidesFDAft"} ->
                    IF FGt(fwd, Zero) THEN slope(h.fd_aft, fd, fwd) ELSE Zero
             [] dist \in {"CenterlineADFwd", "SidesADFwd"} ->
                    IF FGt(rest, Zero) THEN slope(h.ad_fwd, ad, rest) ELSE Zero
             [] dist \in {"CenterlineAD", "SidesAD"} -> ad
             [] dist \in {"CenterlineADAft", "SidesADAft"} ->
                    IF FGt(rest, Zero) THEN slope(h.ad_aft, ad, rest) ELSE Zero
        : fwd \in {FInt(fwd0)}, tot \in {FInt(num_mounts)},
          fd \in {Hull_fd(h)}, ad \in {Hull_ad(h)}})

\* year_adj with 1950 left out of the flat segment.
Ship_year_adj_before_1950(year) ==
    IF year <= 1890 THEN FSub(One, FDiv(FInt(1890 - year), Fin(66666664, 1000000)))
    ELSE IF year < 1950 THEN One
    ELSE Zero

Ship_year_adj(year) ==
    IF year <= 1890 THEN FSub(One, FDiv(FInt(1890 - year), Fin(66666664, 1000000)))
    ELSE IF year <= 1950 THEN One
    ELSE Zero

(***************************************************************************)
(* Battery (weapons.rs): the fields shell_wgt() and Ship::convert use.  The  *)
(* divisor                                                                  *)
(* 1.9830943211886 is kept as 1525/769, which it equals to six digits.      *)
(***************************************************************************)
Battery_default ==
    [num |-> U32(0, 0), diam |-> Zero, len |-> Zero, year |-> 1920,
     shell_wgt |-> None, mount_num |-> U32(0, 0), mount_kind |-> "Deck",
     armor_face |-> Zero, groups |-> <<SubBattery_default, SubBattery_default>>]

Battery_date_factor(b) == FSqrt(Ship_year_adj(b.year))

Battery_broad_and_below(b) ==
    /\ b.mount_kind = "Broadside"
    /\ \E g \in 1..Len(b.groups) : b.groups[g].below # U32(0, 0)

Battery_shell_wgt_est(b) ==
    FMul(FMul(FDiv(Powf(b.diam, FInt(3)), Fin(1525, 769)), Battery_date_factor(b)),
         FAdd(One, FDiv(FMul(IF FLt(b.len, FInt(45)) THEN FInt(-1) ELSE One,
                             FSqrt(FAbs(FSub(FInt(45), b.len)))),
                        FInt(45))))

Battery_set_shell_wgt(b, wgt) == [b EXCEPT !.shell_wgt = wgt]

\* shell_wgt() that never looks at the stored weight.
Battery_shell_wgt_ignores_set(b) == Battery_shell_wgt_est(b)

Battery_shell_wgt(b) ==
    IF b.shell_wgt # None THEN b.shell_wgt ELSE Battery_shell_wgt_est(b)

(***************************************************************************)
(* Seakeeping (lib.rs).  seaboat() is a function of the hull, armor,        *)
(* engine and weights that is not computed here: the field seaboat stands   *)
(* for its value on the ship, which its last line f64::min(c, 2.0) keeps    *)
(* at or below 2 and away from NaN.                                         *)
(***************************************************************************)
Ship_steadiness(sh) == FMin(FMul(FInt(sh.trim), sh.seaboat), FInt(100))

Ship_seakeeping(sh) ==
    FDiv(FMul(sh.seaboat, FMin(Ship_steadiness(sh), FInt(50))), FInt(50))

Ship_type_sea(sh) ==
    Only({
        IF IsAbort(sk) THEN sk
        ELSE [k |-> "SeaType",
              name |-> IF FLt(sk, Fin(7, 10)) THEN "BadSea"
                       ELSE IF FLt(sk, Fin(995, 1000)) THEN "PoorSea"
                       ELSE IF FGe(sk, Fin(15, 10)) THEN "FineSea"
                       ELSE IF FGe(sk, Fin(12, 10)) THEN "GoodSea"
                       ELSE "Error"]
        : sk \in {Ship_seakeeping(sh)}})

\* x + y in u32
U32Plus(x, y, checks) ==
    IF x = Panic \/ y = Panic THEN Panic
    ELSE Only({IF x.top + y.top + carry >= 2
               THEN (IF checks THEN Panic
                     ELSE U32(x.top + y.top + carry - 2,
                              IF carry = 1 THEN x.low - (MaxI32 - y.low) - 1
                              ELSE x.low + y.low))
               ELSE U32(x.top + y.top + carry,
                        IF carry = 1 THEN x.low - (MaxI32 - y.low) - 1
                        ELSE x.low + y.low)
               : carry \in {IF x.low > MaxI32 - y.low THEN 1 ELSE 0}})

\* The sum ship_type() tests for a belt: the weights of the main, end and
\* upper belt, once hull.lwl() and hull.cwp() have returned.
Ship_belt_sum(sh, h) ==
    IF IsAbort(sh.cwp) THEN sh.cwp
    ELSE Only({FAdd(FAdd(Belt_wgt(sh.armor.main, lwl, sh.cwp, h.b),
                         Belt_wgt(sh.armor.end, lwl, sh.cwp, h.b)),
                    Belt_wgt(sh.armor.upper, lwl, sh.cwp, h.b))
               : lwl \in {Hull_lwl(h)}})

\* flotation(): e is sh.flotation_raw.
Ship_flotation(sh, year) ==
    IF IsAbort(sh.flotation_raw) THEN sh.flotation_raw
    ELSE FMax(FMul(sh.flotation_raw, Ship_year_adj(year)), Zero)

\* cap_calc_broadside(): false at the first battery that is not
\* broad_and_below, true at the end of the list.
Ship_cap_calc_broadside(sh) ==
    \A i \in 1..Len(sh.batteries) : Battery_broad_and_below(sh.batteries[i])

\* The main, end and upper belt weights that Armor::wgt(hull, ..) sums.
Armor_wgt_belts(armor, h, cwp0) ==
    Only({IF IsAbort(cwp) THEN cwp
          ELSE [k |-> "belts",
                main |-> Belt_wgt(armor.main, lwl, cwp, h.b),
                end |-> Belt_wgt(armor.end, lwl, cwp, h.b),
                upper |-> Belt_wgt(armor.upper, lwl, cwp, h.b)]
          : lwl \in {Hull_lwl(h)}, cwp \in {cwp0}})

\* The main, end and upper belt weights that enter the sum a of
\* stability(): the first argument of each wgt() is self.hull.d().
Ship_stability_belts(sh, h) ==
    Only({IF IsAbort(d) THEN d
          ELSE IF IsAbort(sh.cwp) THEN sh.cwp
          ELSE [k |-> "belts",
                main |-> Belt_wgt(sh.armor.main, d, sh.cwp, h.b),
                end |-> Belt_wgt(sh.armor.end, d, sh.cwp, h.b),
                upper |-> Belt_wgt(sh.armor.upper, d, sh.cwp, h.b)]
          : d \in {Hull_d(h)}})

\* ship_type(): the secondary and the tertiary below tests add
\* main.groups[1].below to their own first group.
Ship_ship_type(sh, h, checks) ==
    LET main == sh.batteries[1]
        sec == sh.batteries[2]
        ter == sh.batteries[3]
        main_sum == U32Plus(main.groups[1].below, main.groups[2].below, checks)
        sec_sum == U32Plus(sec.groups[1].below, main.groups[2].below, checks)
        ter_sum == U32Plus(ter.groups[1].below, main.groups[2].below, checks)
        main_broad == main.mount_kind = "Broadside"
        sec_broad == sec.mount_kind = "Broadside"
        ter_broad == ter.mount_kind = "Broadside"
        broad_below == \/ main_broad /\ main_sum # U32(0, 0)
                       \/ sec_broad /\ sec_sum # U32(0, 0)
                       \/ ter_broad /\ ter_sum # U32(0, 0)
        broad_no_back == \/ main_broad /\ FGt(main.armor_face, Zero)
                         \/ sec_broad /\ FGt(sec.armor_face, Zero)
                         \/ ter_broad /\ FGt(ter.armor_face, Zero)
        belt_sum == Ship_belt_sum(sh, h)
    IN IF Panic \in {main_sum, sec_sum, ter_sum} THEN Panic
       ELSE IF IsAbort(belt_sum) THEN belt_sum
       ELSE Text(Join(
           (IF main.mount_kind = "OpenBarbette" \/ sec.mount_kind = "OpenBarbette"
            THEN <<"Barbette Ship">> ELSE <<>>)
           \o (IF main.groups[1].distribution \in {"CenterlineFD", "SidesEndsFD"}
               THEN <<"Central Citadel Ship">> ELSE <<>>)
           \o (IF ~(main_broad \/ sec_broad \/ ter_broad) THEN <<>>
               ELSE IF FGt(belt_sum, Zero)
               THEN (IF broad_no_back THEN <<"Armoured Casemate Ship">>
                     ELSE IF FLt(FAdd(h.fc_len, h.fd_len), Fin(1, 2))
                     THEN (IF broad_below
                           THEN <<"Armoured Frigate (Broadside Ironclad)">>
                           ELSE <<"Armoured Corvette (Broadside Ironclad)">>)
                     ELSE IF broad_below
                     THEN <<"Armoured Frigate (Central Battery Ironclad)">>
                     ELSE <<"Armoured Corvette (Central Battery Ironclad)">>)
               ELSE IF broad_below THEN <<"Frigate (Unarmoured)">>
               ELSE <<"Corvette (Unarmoured)">>), "\n"))

\* str_cross(): the quotient times 0.6 is sh.str_cross_raw; the year is
\* converted to f64 before the subtraction.
Ship_str_cross(sh, year) ==
    IF year < 1900
    THEN FMul(sh.str_cross_raw,
              FSub(One, FDiv(FSub(FInt(1900), FInt(year)), FInt(100))))
    ELSE sh.str_cross_raw

\* str_long(): the quotient is sh.str_long_raw; the year factor is formed in
\* u32 (1900 - year, the integer quotient by 100, 1 minus it) and then
\* converted to f64.
Ship_str_long(sh, year, checks) ==
    Only({IF IsAbort(raw) THEN raw
          ELSE IF factor = Panic THEN Panic
          ELSE FMul(raw, factor)
          : raw \in {FMul(sh.str_long_raw, FInt(850))},
            factor \in {IF year < 1900
                        THEN U32Sub(1, (1900 - year) \div 100, checks)
                        ELSE One}})

\* x - y in u32
U32Minus(x, y, checks) ==
    IF x = Panic \/ y = Panic THEN Panic
    ELSE IF checks /\ (x.top < y.top \/ (x.top = y.top /\ x.low < y.low)) THEN Panic
    ELSE Only({IF x.top = y.top
               THEN (IF d >= 0 THEN U32(0, d) ELSE U32(1, (MaxI32 + d) + 1))
               ELSE (IF d >= 0 THEN U32(1, d) ELSE U32(0, (MaxI32 + d) + 1))
               : d \in {x.low - y.low}})

\* What Ship::convert does to one battery: file is the record of the counts
\* and the shell weight read from the input file; groups[1].on is not read.
\* The result is the battery, or Panic.
Ship_convert_battery(file, checks) ==
    LET b == [Battery_set_shell_wgt(Battery_default, file.shell_wgt) EXCEPT
                 !.mount_num = file.mount_num,
                 !.groups[1].above = file.above0, !.groups[1].below = file.below0,
                 !.groups[2].above = file.above1, !.groups[2].below = file.below1]
    IN Only({IF on = Panic THEN Panic ELSE [b EXCEPT !.groups[1].on = on]
             : on \in {U32Minus(U32Minus(U32Minus(U32Minus(U32Minus(
                           b.mount_num, b.groups[1].above, checks),
                           b.groups[1].below, checks),
                           b.groups[2].above, checks),
                           b.groups[2].on, checks),
                           b.groups[2].below, checks)}})

\* Ship::wgt_bunker: the arguments are evaluated before Engine::bunker runs.
Ship_wgt_bunker(h, e, hp_cruise, checks) ==
    Only({IF IsAbort(dv) THEN dv ELSE Engine_bunker(e, dv, hp_cruise, checks)
          : dv \in {Hull_d(h)}})

\* wgt_mag stands for self.wgt_mag(), the sum of the batteries' magazines.
Ship_wgt_load(h, wgt_bunker, wgt_mag) ==
    FAdd(FAdd(FMul(Hull_d(h), Fin(2, 100)), wgt_bunker), wgt_mag)

Ship_d_lite(h, wgt_bunker, wgt_mag) ==
    FSub(Hull_d(h), Ship_wgt_load(h, wgt_bunker, wgt_mag))

Ship_d_std(h, wgt_bunker) == FSub(Hull_d(h), wgt_bunker)

\* d_max with the bunker allowance subtracted.
Ship_d_max_minus(h, wgt_bunker) == FSub(Hull_d(h), FMul(Fin(8, 10), wgt_bunker))

Ship_d_max(h, wgt_bunker) == FAdd(Hull_d(h), FMul(Fin(8, 10), wgt_bunker))

(***************************************************************************)
(* The values the callers use                                              *)
(***************************************************************************)
CbArgs == {Fin(1, 2), Fin(7, 10)}

DArgs == {Zero, FInt(100)}

LenArgs == {Zero, FInt(100)}

BbVals == {Zero, FInt(5)}

TVals == {Zero, FInt(2)}

BowTypes == {[kind |-> "Normal", len |-> Zero], [kind |-> "Ram", len |-> FInt(15)]}

OverhangVals == {FInt(-10), Zero, FInt(10)}

FcFwdVals == {Zero, FInt(10)}

BowAngles == {FInt(-45), Zero, FInt(45), FInt(90)}

\* The parts of a Ship outside its hull and engine: one of the five belts of
\* Armor::default(), one of its batteries and one group of a battery, trim,
\* its list of batteries and the three belts of its armor, the value of
\* hull.cwp() and the value of seaboat(), neither of which returns on
\* Ship::default();
\* lastShellWgt is the argument of the last set_shell_wgt on the battery.
\* str_cross_raw and str_long_raw are the values of the two strength
\* quotients before their year scaling, flotation_raw is the value e of
\* flotation() before its year scaling; they read hull.d() and do not
\* return on Ship::default() either.
Ship_default ==
    [belt |-> Belt_new("Main"), sub |-> SubBattery_default,
     battery |-> Battery_default, lastShellWgt |-> None,
     trim |-> 50, seaboat |-> StackOverflow,
     str_cross_raw |-> StackOverflow, str_long_raw |-> StackOverflow,
     batteries |-> [i \in 1..5 |-> Battery_default],
     armor |-> [main |-> Belt_new("Main"), end |-> Belt_new("End"),
                upper |-> Belt_new("Upper")],
     cwp |-> StackOverflow, flotation_raw |-> StackOverflow]

\* Arguments of cb_calc(d, t).
CalcD == {FInt(-1), Zero, FInt(100), FInt(8000), PosInf}

CalcT == {FInt(-1), Zero, FInt(10)}

\* The last evaluation: the operation, its arguments and what it returned.
Idle == [op |-> "idle", a |-> None, b |-> None, res |-> None]

Returned(op, a, b, res) == [op |-> op, a |-> a, b |-> b, res |-> res]

NoSetter == [op |-> "none", arg |-> None]

(***************************************************************************)
(* The Hull as its caller drives it: setters, field assignments, accessors  *)
(***************************************************************************)
Init ==
    /\ hull = Hull_default
    /\ engine = Engine_default
    /\ ship_year = 0
    /\ ship = Ship_default
    /\ lastCbD = NoSetter
    /\ lastLen = NoSetter
    /\ call = Idle

set_cb ==
    \E x \in CbArgs :
        /\ hull' = Hull_set_cb(hull, x)
        /\ lastCbD' = [op |-> "set_cb", arg |-> x]
        /\ call' = Returned("set_cb", x, None, x)
        /\ UNCHANGED <<engine, ship_year, ship, lastLen>>

set_d ==
    \E x \in DArgs :
        /\ hull' = Hull_set_d(hull, x)
        /\ lastCbD' = [op |-> "set_d", arg |-> x]
        /\ call' = Returned("set_d", x, None, x)
        /\ UNCHANGED <<engine, ship_year, ship, lastLen>>

set_lwl ==
    \E len \in LenArgs :
        /\ hull' = Hull_set_lwl(hull, len)
        /\ lastLen' = [op |-> "set_lwl", arg |-> len]
        /\ call' = Returned("set_lwl", len, None, len)
        /\ UNCHANGED <<engine, ship_year, ship, lastCbD>>

set_loa ==
    \E len \in LenArgs :
        /\ hull' = Hull_set_loa(hull, len)
        /\ lastLen' = [op |-> "set_loa", arg |-> len]
        /\ call' = Returned("set_loa", len, None, len)
        /\ UNCHANGED <<engine, ship_year, ship, lastCbD>>

\* Direct assignments to the Hull's public fields.
assign_bb ==
    \E x \in BbVals :
        /\ hull' = [hull EXCEPT !.bb = x]
        /\ call' = Idle
        /\ UNCHANGED <<engine, ship_year, ship, lastCbD, lastLen>>

assign_t ==
    \E x \in TVals :
        /\ hull' = [hull EXCEPT !.t = x]
        /\ call' = Idle
        /\ UNCHANGED <<engine, ship_year, ship, lastCbD, lastLen>>

assign_stern_overhang ==
    \E x \in OverhangVals :
        /\ hull' = [hull EXCEPT !.stern_overhang = x]
        /\ call' = Idle
        /\ UNCHANGED <<engine, ship_year, ship, lastCbD, lastLen>>

assign_bow_type ==
    \E x \in BowTypes :
        /\ hull' = [hull EXCEPT !.bow_type = x]
        /\ call' = Idle
        /\ UNCHANGED <<engine, ship_year, ship, lastCbD, lastLen>>

assign_fc_fwd ==
    \E x \in FcFwdVals :
        /\ hull' = [hull EXCEPT !.fc_fwd = x]
        /\ call' = Idle
        /\ UNCHANGED <<engine, ship_year, ship, lastCbD, lastLen>>

assign_bow_angle ==
    \E x \in BowAngles :
        /\ hull' = [hull EXCEPT !.bow_angle = x]
        /\ call' = Idle
        /\ UNCHANGED <<engine, ship_year, ship, lastCbD, lastLen>>

call_cb ==
    /\ call' = Returned("cb", None, None, Hull_cb(hull))
    /\ UNCHANGED <<hull, engine, ship_year, ship, lastCbD, lastLen>>

call_d ==
    /\ call' = Returned("d", None, None, Hull_d(hull))
    /\ UNCHANGED <<hull, engine, ship_year, ship, lastCbD, lastLen>>

call_lwl ==
    /\ call' = Returned("lwl", None, None, Hull_lwl(hull))
    /\ UNCHANGED <<hull, engine, ship_year, ship, lastCbD, lastLen>>

call_loa ==
    /\ call' = Returned("loa", None, None, Hull_loa(hull))
    /\ UNCHANGED <<hull, engine, ship_year, ship, lastCbD, lastLen>>

call_cb_calc ==
    \E dv \in CalcD, tv \in CalcT :
        /\ call' = Returned("cb_calc", dv, tv, Hull_cb_calc(hull, dv, tv))
        /\ UNCHANGED <<hull, engine, ship_year, ship, lastCbD, lastLen>>

call_cs ==
    /\ call' = Returned("cs", None, None, Hull_cs(hull))
    /\ UNCHANGED <<hull, engine, ship_year, ship, lastCbD, lastLen>>

call_ws ==
    /\ call' = Returned("ws", None, None, Hull_ws(hull))
    /\ UNCHANGED <<hull, engine, ship_year, ship, lastCbD, lastLen>>

\* The block coefficient and the displacement: the four setters, the fields
\* the derivations read, and the accessors.
Next ==
    \/ set_cb \/ set_d \/ set_lwl \/ set_loa
    \/ assign_bb \/ assign_t \/ assign_stern_overhang
    \/ call_cb \/ call_d \/ call_cb_calc

Spec == Init /\ [][Next]_vars

\* The two lengths: their setters, the bow and stern geometry, the accessors.
NextLengths ==
    \/ set_lwl \/ set_loa
    \/ assign_bow_type \/ assign_stern_overhang \/ assign_fc_fwd \/ assign_bow_angle
    \/ call_lwl \/ call_loa

SpecLengths == Init /\ [][NextLengths]_vars

(***************************************************************************)
(* A Ship's hull and engine as the caller has filled them in, and the       *)
(* formulas evaluated on them                                               *)
(***************************************************************************)
ShipHulls ==
    LET fields == {[Hull_default EXCEPT !.bb = bb, !.t = t] :
                       bb \in BbVals, t \in TVals}
        lens   == fields \cup {Hull_set_lwl(h, len) : h \in fields, len \in LenArgs}
    IN lens \cup {Hull_set_cb(h, Fin(1, 2)) : h \in lens}
            \cup {Hull_set_d(h, FInt(100)) : h \in lens}

ShipEngines ==
    {[Engine_default EXCEPT !.vcruise = vc, !.range = 1000, !.year = yb[1],
                            !.boiler = yb[2]] :
        vc \in {Zero, FInt(10)},
        yb \in {<<0, {}>>, <<1920, {"Turbine"}>>, <<1905, {"Turbine"}>>,
                <<1920, {"Simple"}>>, <<1840, {"Simple"}>>}}

\* Values of hp_cruise, of the displacement passed to bunker, and of wgt_mag.
HpVals == {Zero, FInt(900)}

BunkerD == {FInt(5000)}

MagVals == {Zero, FInt(50)}

InitShip ==
    /\ hull \in ShipHulls
    /\ engine \in ShipEngines
    /\ ship_year = 0
    /\ ship = Ship_default
    /\ lastCbD = NoSetter
    /\ lastLen = NoSetter
    /\ call = Idle

call_bunker ==
    \E dv \in BunkerD, hp \in HpVals, checks \in BOOLEAN :
        /\ call' = Returned("bunker", dv, hp, Engine_bunker(engine, dv, hp, checks))
        /\ UNCHANGED <<hull, engine, ship_year, ship, lastCbD, lastLen>>

\* d_lite(), d_std(), hull.d() and d_max() of one ship; a and b record the
\* bunker and magazine weights they used.
call_displacements ==
    \E hp \in HpVals, wm \in MagVals, checks \in BOOLEAN :
        \E wb \in {Ship_wgt_bunker(hull, engine, hp, checks)} :
            /\ call' = Returned("displacements", wb, wm,
                                <<Ship_d_lite(hull, wb, wm), Ship_d_std(hull, wb),
                                  Hull_d(hull), Ship_d_max(hull, wb)>>)
            /\ UNCHANGED <<hull, engine, ship_year, ship, lastCbD, lastLen>>

NextShip == call_cs \/ call_ws \/ call_bunker \/ call_displacements

SpecShip == InitShip /\ [][NextShip]_vars

(***************************************************************************)
(* The year curves of the boilers and of the ship                          *)
(***************************************************************************)
MinYear == 1850

MaxYear == 1960

\* Engine::default() has year 0.
Years == {0} \cup (MinYear..MaxYear)

Boilers == SUBSET {"Simple", "Complex", "Turbine"}

Fuels == {{}, {"Oil"}, {"Diesel"}, {"Coal", "Diesel"}}

InitCurves ==
    /\ hull = Hull_default
    /\ engine \in {[Engine_default EXCEPT !.year = y, !.boiler = bl, !.fuel = fu] :
                      y \in Years, bl \in Boilers, fu \in Fuels}
    /\ ship_year = 0
    /\ ship = Ship_default
    /\ lastCbD = NoSetter
    /\ lastLen = NoSetter
    /\ call = Idle

\* self.boiler.bunker_factor(self.year), as Engine::bunker calls it.
call_bunker_factor ==
    \E checks \in BOOLEAN :
        /\ call' = Returned("bunker_factor", None, None,
                            BoilerType_bunker_factor(engine.boiler, engine.year, checks))
        /\ UNCHANGED <<hull, engine, ship_year, ship, lastCbD, lastLen>>

\* self.boiler.d_engine_factor(self.year, self.fuel), as Engine::d_engine calls it.
call_d_engine_factor ==
    \E checks \in BOOLEAN :
        /\ call' = Returned("d_engine_factor", None, None,
                            BoilerType_d_engine_factor(engine.boiler, engine.year,
                                                       engine.fuel, checks))
        /\ UNCHANGED <<hull, engine, ship_year, ship, lastCbD, lastLen>>

NextCurves == call_bunker_factor \/ call_d_engine_factor

SpecCurves == InitCurves /\ [][NextCurves]_vars

InitYear ==
    /\ hull = Hull_default
    /\ engine = Engine_default
    /\ ship_year \in Years
    /\ ship = Ship_default
    /\ lastCbD = NoSetter
    /\ lastLen = NoSetter
    /\ call = Idle

\* Ship::year_adj(self.year)
call_year_adj ==
    /\ call' = Returned("year_adj", None, None, Ship_year_adj(ship_year))
    /\ UNCHANGED <<hull, engine, ship_year, ship, lastCbD, lastLen>>

NextYear == call_year_adj

SpecYear == InitYear /\ [][NextYear]_vars

(***************************************************************************)
(* Properties                                                              *)
(***************************************************************************)
\* C1: in every Hull state reached by set_cb, set_d, set_lwl and set_loa, at
\* most one of cb and d is stored and at most one of lwl and loa is stored,
\* and in each pair the stored one is the one the most recent setter of that
\* pair named, holding that setter's argument.
C1_LastWriteWins ==
    /\ ~(hull.cb # None /\ hull.d # None)
    /\ ~(hull.lwl # None /\ hull.loa # None)
    /\ (lastCbD.op = "none" => hull.cb = None /\ hull.d = None)
    /\ (lastCbD.op = "set_cb" => hull.cb = lastCbD.arg /\ hull.d = None)
    /\ (lastCbD.op = "set_d" => hull.d = lastCbD.arg /\ hull.cb = None)
    /\ (lastLen.op = "none" => hull.lwl = None /\ hull.loa = None)
    /\ (lastLen.op = "set_lwl" => hull.lwl = lastLen.arg /\ hull.loa = None)
    /\ (lastLen.op = "set_loa" => hull.loa = lastLen.arg /\ hull.lwl = None)

\* set_d has just run on a hull whose lengths were last set by set_loa.
C1_Witness ==
    /\ call.op = "set_d"
    /\ lastCbD.op = "set_d"
    /\ lastLen.op = "set_loa"
    /\ hull.d = FInt(100)

\* C2: while set_cb(x) is the most recent of set_cb and set_d, cb() returns
\* exactly x and d() returns x * lwl * bb * t / 35; while set_d(y) is the most
\* recent, d() returns exactly y and cb() returns cb_calc(y, t).
C2_StoredAndDerived ==
    /\ (call.op = "cb" /\ lastCbD.op = "set_cb" => call.res = lastCbD.arg)
    /\ (call.op = "d" /\ lastCbD.op = "set_cb" =>
            LET x == lastCbD.arg
                l == Hull_lwl(hull)
            IN call.res = Fin(x.n * l.n * hull.bb.n * hull.t.n,
                              x.d * l.d * hull.bb.d * hull.t.d * 35))
    /\ (call.op = "d" /\ lastCbD.op = "set_d" => call.res = lastCbD.arg)
    /\ (call.op = "cb" /\ lastCbD.op = "set_d" =>
            call.res = Hull_cb_calc(hull, lastCbD.arg, hull.t))

\* d() has returned 0.7 * 100 * 5 * 2 / 35 = 20 after set_cb(0.7).
C2_Witness ==
    /\ call.op = "d"
    /\ lastCbD = [op |-> "set_cb", arg |-> Fin(7, 10)]
    /\ call.res = FInt(20)

\* C3 as stated: when a length is stored it is returned verbatim, loa() minus
\* lwl() equals max(ram_len, stem_len, 0) + max(stern_overhang, 0) whichever
\* was stored, loa() >= lwl(), and set_loa(loa()) after a set_lwl leaves
\* lwl() unchanged.
C3_ExactDifference ==
    LET extra == FAdd(FMax(FMax(BowType_ram_len(hull.bow_type),
                                Hull_stem_len(hull)), Zero),
                      FMax(hull.stern_overhang, Zero))
    IN /\ (call.op = "lwl" /\ hull.lwl # None => call.res = hull.lwl)
       /\ (call.op = "loa" /\ hull.loa # None => call.res = hull.loa)
       /\ (call.op = "loa" /\ hull.lwl # None =>
               /\ FSub(call.res, hull.lwl) = extra
               /\ FGe(call.res, hull.lwl)
               /\ Hull_lwl(Hull_set_loa(hull, call.res)) = hull.lwl)
       /\ (call.op = "lwl" /\ hull.loa # None =>
               /\ FSub(hull.loa, call.res) = extra
               /\ FGe(hull.loa, call.res))

\* C3, amended: when a length is stored it is returned verbatim and
\* loa() >= lwl(); loa() minus lwl() equals max(ram_len, stem_len, 0) +
\* max(stern_overhang, 0) exactly when these terms are whole numbers, and
\* otherwise to within the spacing of binary64 numbers at the longer length;
\* set_loa(loa()) after a set_lwl gives lwl() back to within the same spacing,
\* and exactly when the terms are whole numbers.
C3_RoundedDifference ==
    LET bow   == FMax(FMax(BowType_ram_len(hull.bow_type), Hull_stem_len(hull)),
                      Zero)
        stern == FMax(hull.stern_overhang, Zero)
        whole == bow.u = 0 /\ stern.u = 0
        \* the spacing, in units U, of the binary64 numbers near x
        spacing(x) == IF x.n = 0 THEN 0 ELSE Pow2(Log2(Abs(x.n)) + 1)
        within(long, short) ==
            /\ long.n - short.n = bow.n + stern.n
            /\ Abs(long.u - short.u - bow.u - stern.u)
                   <= IF spacing(long) >= spacing(short)
                      THEN spacing(long) ELSE spacing(short)
    IN /\ (call.op = "lwl" /\ hull.lwl # None => call.res = hull.lwl)
       /\ (call.op = "loa" /\ hull.loa # None => call.res = hull.loa)
       /\ (call.op = "loa" /\ hull.lwl # None =>
               LET back == Hull_lwl(Hull_set_loa(hull, call.res))
               IN /\ FGe(call.res, hull.lwl)
                  /\ within(call.res, hull.lwl)
                  /\ back.n = hull.lwl.n
                  /\ Abs(back.u - hull.lwl.u) <= spacing(call.res)
                  /\ (whole => /\ FSub(call.res, hull.lwl) = FAdd(bow, stern)
                               /\ back = hull.lwl))
       /\ (call.op = "lwl" /\ hull.loa # None =>
               /\ FGe(hull.loa, call.res)
               /\ within(hull.loa, call.res)
               /\ (whole => FSub(hull.loa, call.res) = FAdd(bow, stern)))

\* loa() has returned 110.0 for a stored lwl of 100 and a stem of
\* 10 * tan(45 degrees) = 9.999999999999998.
C3_Witness ==
    /\ call.op = "loa"
    /\ hull.lwl = FInt(100)
    /\ hull.bow_type.kind = "Normal"
    /\ Hull_stem_len(hull) = FUlps(10, -16)
    /\ hull.stern_overhang = Zero
    /\ call.res = FInt(110)

\* C4: cb() and d() return a value in every Hull state reached by setters and
\* field assignments, the initial state included.
C4_Total == call.op \in {"cb", "d"} => ~IsAbort(call.res)

\* cb() has been called on Hull::default() and overflowed the stack.
C4_Witness ==
    /\ call.op = "cb"
    /\ hull = Hull_default
    /\ call.res = StackOverflow

\* C5: ws() returns exactly 0 when t == 0, cs() returns exactly 0 when
\* lwl() == 0 and Engine::bunker returns exactly 0 when vcruise == 0, whatever
\* the other fields hold.
C5_Guards ==
    /\ (call.op = "ws" /\ FEq(hull.t, Zero) => call.res = Zero)
    /\ (call.op = "cs" /\ FEq(Hull_lwl(hull), Zero) => call.res = Zero)
    /\ (call.op = "bunker" /\ FEq(engine.vcruise, Zero) => call.res = Zero)

\* ws() has returned for a hull with t == 0 on which neither cb nor d is
\* stored, so that d() would not return.
C5_Witness ==
    /\ call.op = "ws"
    /\ hull.t = Zero
    /\ hull.cb = None
    /\ hull.d = None
    /\ IsAbort(Hull_d(hull))

\* C6: for a ship whose displacement, bunker weight and magazine weight are
\* not negative, d_lite() <= d_std() <= hull.d() <= d_max().
C6_DisplacementOrder ==
    (/\ call.op = "displacements"
     /\ FGe(call.res[3], Zero)
     /\ FGe(call.a, Zero)
     /\ FGe(call.b, Zero))
    => /\ FLe(call.res[1], call.res[2])
       /\ FLe(call.res[2], call.res[3])
       /\ FLe(call.res[3], call.res[4])

\* The four displacements of a ship with positive displacement, bunker and
\* magazine weights, all four different.
C6_Witness ==
    /\ call.op = "displacements"
    /\ FGt(call.res[3], Zero)
    /\ FGt(call.a, Zero)
    /\ FGt(call.b, Zero)
    /\ FLt(call.res[1], call.res[2])
    /\ FLt(call.res[2], call.res[3])
    /\ FLt(call.res[3], call.res[4])

\* C7: cb_calc(d, t) lies in [0, 1]; it is 0 when lwl * bb * t == 0 and
\* otherwise d * 35 / (lwl * bb * t), replaced by 1 when larger and by 0 when
\* smaller.
C7_Clamped ==
    call.op = "cb_calc" =>
        LET volume == FMul(FMul(Hull_lwl(hull), hull.bb), call.b)
            q      == FDiv(FMul(call.a, FInt(35)), volume)
        IN /\ FGe(call.res, Zero)
           /\ FLe(call.res, One)
           /\ (FEq(volume, Zero) => call.res = Zero)
           /\ (~FEq(volume, Zero) =>
                   call.res = IF FGt(q, One) THEN One
                              ELSE IF FLt(q, Zero) THEN Zero ELSE q)

\* cb_calc(8000, 10) has returned 1 for a hull of 100 x 5: 8000 * 35 / 5000
\* is 56.
C7_Witness ==
    /\ call.op = "cb_calc"
    /\ call.a = FInt(8000)
    /\ call.b = FInt(10)
    /\ Hull_lwl(hull) = FInt(100)
    /\ hull.bb = FInt(5)
    /\ call.res = One

\* C8: bunker_factor(year) is 1 - (1910 - year)/70 for a reciprocating boiler
\* and for any boiler before 1898, otherwise 1 + (year - 1910)/20 before 1920,
\* 1.5 + (year - 1920)/60 before 1950 and 2.0 from 1950 on, the differences
\* being signed.
C8_SignedCurve ==
    call.op = "bunker_factor" =>
        LET y == engine.year
        IN call.res =
               IF BoilerType_is_reciprocating(engine.boiler) \/ y < 1898
               THEN FSub(One, Fin(1910 - y, 70))
               ELSE IF y < 1920 THEN FAdd(One, Fin(y - 1910, 20))
               ELSE IF y < 1950 THEN FAdd(Fin(15, 10), Fin(y - 1920, 60))
               ELSE FInt(2)

\* bunker_factor(1911) of a Simple boiler has panicked on 1910 - 1911.
C8_Witness ==
    /\ call.op = "bunker_factor"
    /\ engine.boiler = {"Simple"}
    /\ engine.year = 1911
    /\ call.res = Panic

\* C9: d_engine_factor(year, fuel) is the sum of a Simple, a Complex and a
\* Turbine term, each 0 unless its bit is set (the Turbine term also when the
\* fuel is not steam), each following its year curve, whose first segment
\* 1.2 + (year - 1860) * 0.05 covers every year up to 1884, 1905 and 1897.
C9_SignedTerms ==
    call.op = "d_engine_factor" =>
        LET y == engine.year
            first == FAdd(Fin(12, 10), FMul(FInt(y - 1860), Fin(5, 100)))
            simple ==
                IF ~BoilerType_is_simple(engine.boiler) THEN Zero
                ELSE IF y <= 1884 THEN first
                ELSE IF y <= 1949
                THEN FAdd(Fin(245, 100), FMul(FInt(y - 1885), Fin(25, 1000)))
                ELSE Fin(4075, 1000)
            complex ==
                IF ~BoilerType_is_complex(engine.boiler) THEN Zero
                ELSE IF y <= 1905 THEN first
                ELSE IF y <= 1910 THEN FAdd(Fin(35, 10), FInt(y - 1906))
                ELSE IF y <= 1949
                THEN FAdd(Fin(75, 10), FMul(FInt(y - 1910), Fin(25, 1000)))
                ELSE Fin(85, 10)
            turbine ==
                IF ~(BoilerType_is_turbine(engine.boiler)
                     \/ ~FuelType_is_steam(engine.fuel)) THEN Zero
                ELSE IF y <= 1897 THEN first
                ELSE IF y <= 1902 THEN FAdd(One, FMul(FInt(y - 1898), Fin(5, 10)))
                ELSE IF y <= 1909 THEN FAdd(FInt(4), FInt(y - 1903))
                ELSE IF y <= 1949
                THEN FAdd(FInt(11), FMul(FInt(y - 1910), Fin(2, 10)))
                ELSE FInt(19)
        IN call.res = FAdd(FAdd(simple, complex), turbine)

\* d_engine_factor(0, fuel) of a Simple boiler, the year of Engine::default(),
\* has panicked on 0 - 1860.
C9_Witness ==
    /\ call.op = "d_engine_factor"
    /\ engine.boiler = {"Simple"}
    /\ engine.year = 0
    /\ call.res = Panic

\* C10: year_adj(year) is 1 from 1890 to 1950, 0 after 1950 and
\* 1 - (1890 - year)/66.666664 before 1890; up to 1950 it does not decrease
\* from one year to the next, and the step from 1889 to 1890 is the step of
\* the ramp, 1/66.666664.
C10_YearCurve ==
    call.op = "year_adj" =>
        /\ (1890 <= ship_year /\ ship_year <= 1950 => call.res = One)
        /\ (ship_year > 1950 => call.res = Zero)
        /\ (ship_year < 1890 =>
                call.res = Fin(66666664 - (1890 - ship_year) * 1000000, 66666664))
        /\ (1 <= ship_year /\ ship_year <= 1950 =>
                FLe(Ship_year_adj(ship_year - 1), call.res))
        /\ (ship_year = 1890 =>
                FSub(call.res, Ship_year_adj(1889)) = Fin(1000000, 66666664))

\* year_adj has returned for 1950, the last year of the flat segment.
C10_Witness ==
    /\ call.op = "year_adj"
    /\ ship_year = 1950
    /\ call.res = One

(***************************************************************************)
(* Engine::hp on its own arguments                                          *)
(***************************************************************************)
HpYears == {1800, 1850, 1889, 1890, 1891, 1920}

\* Arguments <<v, d, lwl, leff, cs, ws>> of hp().
HpArgs ==
    {<<v, d, lwl, leff, cs, ws>> :
        v \in {Zero, FInt(10), FInt(16), FInt(25)}, d \in {Zero, FInt(1000)},
        lwl \in {Zero, FInt(100)}, leff \in {Zero, FInt(100), FInt(125)},
        cs \in {Zero, Fin(1, 4)}, ws \in {Zero, FInt(100)}}

\* An hp() call of one engine, its six arguments chosen and not yet evaluated.
InitHp ==
    /\ hull = Hull_default
    /\ engine \in {[Engine_default EXCEPT !.year = y] : y \in HpYears}
    /\ ship_year = 0
    /\ ship = Ship_default
    /\ lastCbD = NoSetter
    /\ lastLen = NoSetter
    /\ call \in {Returned("hp_args", args, None, None) : args \in HpArgs}

\* self.hp(v, d, lwl, leff, cs, ws); a records the six arguments.
call_hp ==
    /\ call.op = "hp_args"
    /\ call' = Returned("hp", call.a, None,
                        Engine_hp(engine, call.a[1], call.a[2], call.a[3],
                                  call.a[4], call.a[5], call.a[6]))
    /\ UNCHANGED <<hull, engine, ship_year, ship, lastCbD, lastLen>>

SpecHp == InitHp /\ [][call_hp]_vars

\* C11: hp() is the horsepower of the same arguments at year 1890 multiplied
\* by 1 + (1890 - year)/100 when year < 1890 and by exactly 1 when
\* year >= 1890: at year 1889 it is 1.01 times the value at 1890, and from
\* 1890 on it does not depend on the year.
C11_EarlyScale ==
    call.op = "hp" =>
        \E at1890 \in {Engine_hp([engine EXCEPT !.year = 1890],
                                 call.a[1], call.a[2], call.a[3], call.a[4],
                                 call.a[5], call.a[6])} :
            /\ (engine.year >= 1890 => call.res = at1890)
            /\ (engine.year < 1890 =>
                    call.res = FMul(at1890, Fin(100 + 1890 - engine.year, 100)))
            /\ (engine.year = 1889 => call.res = FMul(at1890, Fin(101, 100)))

\* hp() of an engine of 1889 has returned a positive horsepower.
C11_Witness ==
    /\ call.op = "hp"
    /\ engine.year = 1889
    /\ FGt(call.res, Zero)
    /\ call.a[1] = FInt(16)


(***************************************************************************)
(* A Belt: its public fields are assigned, its weight is evaluated          *)
(***************************************************************************)
\* The five belts of Armor::default().
InitBelt ==
    /\ hull = Hull_default
    /\ engine = Engine_default
    /\ ship_year = 0
    /\ ship \in {[Ship_default EXCEPT !.belt = Belt_new(kind)] :
                    kind \in {"Main", "End", "Upper", "Bulge", "Bulkhead"}}
    /\ lastCbD = NoSetter
    /\ lastLen = NoSetter
    /\ call = Idle

\* belt.thick = x, belt.len = x or belt.hgt = x
assign_belt ==
    \E x \in {Zero, FInt(10), FInt(100)} :
        /\ \/ ship' = [ship EXCEPT !.belt.thick = x]
           \/ ship' = [ship EXCEPT !.belt.len = x]
           \/ ship' = [ship EXCEPT !.belt.hgt = x]
        /\ call' = Idle
        /\ UNCHANGED <<hull, engine, ship_year, lastCbD, lastLen>>

\* belt.wgt(lwl, cwp, b); a records the three arguments.
call_belt_wgt ==
    \E args \in {<<lwl, cwp, b>> : lwl \in {Zero, FInt(50), FInt(500)},
                                     cwp \in {Zero, Fin(1, 2), One},
                                     b \in {Zero, FInt(10)}} :
        /\ call' = Returned("belt_wgt", args, None,
                            Belt_wgt(ship.belt, args[1], args[2], args[3]))
        /\ UNCHANGED <<hull, engine, ship_year, ship, lastCbD, lastLen>>

SpecBelt == InitBelt /\ [][assign_belt \/ call_belt_wgt]_vars

\* C12: no operation changes the kind Belt::new gave a Belt; for kind End,
\* Bulge or Bulkhead, wgt(lwl, cwp, b) is len * hgt * thick * 0.0185 * 2
\* whatever lwl, cwp and b are; for kind Main or Upper the taper term
\* (1 - len/lwl)^(1 - cwp) * b is added to len first.
C12_KindFixedAndWeight ==
    /\ [][ship.belt.kind' = ship.belt.kind]_vars
    /\ [](call.op = "belt_wgt" =>
            \E belt \in {ship.belt} :
                \E plain \in {FMul(FMul(FMul(FMul(belt.len, belt.hgt), belt.thick),
                                        Fin(185, 10000)), FInt(2))} :
                    /\ belt.kind \in {"End", "Bulge", "Bulkhead"} =>
                           call.res = plain
                    /\ belt.kind \in {"Main", "Upper"} =>
                           call.res =
                               FMul(FMul(FMul(FMul(
                                   FAdd(belt.len,
                                        FMul(Powf(FSub(One, FDiv(belt.len, call.a[1])),
                                                  FSub(One, call.a[2])),
                                             call.a[3])),
                                   belt.hgt), belt.thick), Fin(185, 10000)), FInt(2)))

\* wgt(0, 0.5, 10) of an End belt of 100 x 10 x 10 has returned 370, although
\* len / lwl is infinite.
C12_Witness ==
    /\ call.op = "belt_wgt"
    /\ ship.belt = [thick |-> FInt(10), len |-> FInt(100), hgt |-> FInt(10),
                    kind |-> "End"]
    /\ call.a = <<Zero, Fin(1, 2), FInt(10)>>
    /\ call.res = FInt(370)

(***************************************************************************)
(* A SubBattery as its public fields were filled in                         *)
(***************************************************************************)
\* Mount counts: small ones and the ends of the i32 and u32 ranges.
MountCounts ==
    {U32(0, 0), U32(0, 1), U32(0, 2), U32(0, 3), U32(0, MaxI32 \div 2 + 1),
     U32(0, MaxI32), U32(1, 0), U32(1, MaxI32)}

InitSub ==
    /\ hull = Hull_default
    /\ engine = Engine_default
    /\ ship_year = 0
    /\ ship \in {[Ship_default EXCEPT !.sub =
                     [SubBattery_default EXCEPT !.layout = l, !.above = a,
                         !.below = b, !.two_mounts_up = up, !.lower_deck = low]] :
                    l \in {"Single", "Twin", "Triple", "Dec2Row"},
                    a \in MountCounts, b \in MountCounts,
                    up \in BOOLEAN, low \in BOOLEAN}
    /\ lastCbD = NoSetter
    /\ lastLen = NoSetter
    /\ call = Idle

call_super_ ==
    \E checks \in BOOLEAN :
        /\ call' = Returned("super_", None, None,
                            SubBattery_super_(ship.sub, checks))
        /\ UNCHANGED <<hull, engine, ship_year, ship, lastCbD, lastLen>>

SpecSub == InitSub /\ [][call_super_]_vars

\* C13: super_() returns (above * (2 if two_mounts_up else 1) - below *
\* (2 if lower_deck else 1)) * guns_per(layout) as a signed integer: it
\* returns, it is negative exactly when the weighted below count exceeds the
\* weighted above count, and for counts up to 3 it is the product written
\* out.
C13_SignedNet ==
    call.op = "super_" =>
        \E sub \in {ship.sub} :
            LET \* 2 * x > y, x > 2 * y and x > y for u32 x and y
                gt21(x, y) == x.top = 1 \/ x.low > y.top * (MaxI32 \div 2 + 1)
                                                     + y.low \div 2
                gt12(x, y) == ~(y.top = 1) /\ ~gt21(y, x) /\
                              ~(x.top = 0 /\ y.top = 0 /\ x.low = 2 * y.low
                                /\ y.low <= MaxI32 \div 2) /\
                              ~(x.top = 1 /\ y.top = 0 /\ y.low > MaxI32 \div 2
                                /\ x.low = 2 * (y.low - MaxI32 \div 2 - 1))
                gt11(x, y) == x.top > y.top \/ (x.top = y.top /\ x.low > y.low)
                below_more ==
                    IF sub.two_mounts_up = sub.lower_deck
                    THEN gt11(sub.below, sub.above)
                    ELSE IF sub.lower_deck THEN gt21(sub.below, sub.above)
                    ELSE gt12(sub.below, sub.above)
                small == sub.above.top = 0 /\ sub.above.low <= 3
                         /\ sub.below.top = 0 /\ sub.below.low <= 3
            IN /\ call.res # Panic
               /\ (call.res.n < 0 <=> below_more)
               /\ (small =>
                       call.res.n =
                           (sub.above.low * (IF sub.two_mounts_up THEN 2 ELSE 1)
                            - sub.below.low * (IF sub.lower_deck THEN 2 ELSE 1))
                           * GunLayoutType_guns_per(sub.layout))

\* super_() has returned -2^31 for 2^31 mounts above and none below.
C13_Witness ==
    /\ call.op = "super_"
    /\ ship.sub = [SubBattery_default EXCEPT !.above = U32(1, 0)]
    /\ call.res = I32(MinI32)

(***************************************************************************)
(* The effective length of the hulls of the four stern types                *)
(***************************************************************************)
InitLeff ==
    /\ hull \in {[h EXCEPT !.stern_type = st] :
                    h \in ShipHulls,
                    st \in {"TransomSm", "TransomLg", "Cruiser", "Round"}}
    /\ engine = Engine_default
    /\ ship_year = 0
    /\ ship = Ship_default
    /\ lastCbD = NoSetter
    /\ lastLen = NoSetter
    /\ call = Idle

call_leff ==
    /\ call' = Returned("leff", None, None, Hull_leff(hull))
    /\ UNCHANGED <<hull, engine, ship_year, ship, lastCbD, lastLen>>

SpecLeff == InitLeff /\ [][call_leff]_vars

\* C14 as stated: whenever leff() returns on a hull whose stern is neither
\* TransomSm nor TransomLg, it returns lwl() unchanged.
C14_LwlUnchanged ==
    (/\ call.op = "leff"
     /\ ~IsAbort(call.res)
     /\ hull.stern_type \notin {"TransomSm", "TransomLg"})
    => call.res = Hull_lwl(hull)

\* C14, amended: whenever leff() returns on a hull whose stern is neither
\* TransomSm nor TransomLg, it returns lwl() unchanged if cs() is not zero;
\* if cs() is zero it returns 0 for every stern type, the transoms included.
C14_LwlUnlessBlunt ==
    (call.op = "leff" /\ ~IsAbort(call.res)) =>
        \E cs \in {Hull_cs(hull)} :
            /\ (FEq(cs, Zero) => call.res = Zero)
            /\ (~FEq(cs, Zero)
                /\ hull.stern_type \notin {"TransomSm", "TransomLg"}
                => call.res = Hull_lwl(hull))

\* leff() has returned 0 for a cruiser stern on a hull of length 100 and
\* beam 0, whose cs() is 0.
C14_Witness ==
    /\ call.op = "leff"
    /\ hull.stern_type = "Cruiser"
    /\ Hull_lwl(hull) = FInt(100)
    /\ hull.bb = Zero
    /\ Hull_cs(hull) = Zero
    /\ call.res = Zero

(***************************************************************************)
(* A Battery: its shell weight is set, its fields are assigned              *)
(***************************************************************************)
set_shell_wgt ==
    \E wgt \in {Zero, FInt(100), NaN} :
        /\ ship' = [ship EXCEPT !.battery = Battery_set_shell_wgt(@, wgt),
                                !.lastShellWgt = wgt]
        /\ call' = Returned("set_shell_wgt", wgt, None, wgt)
        /\ UNCHANGED <<hull, engine, ship_year, lastCbD, lastLen>>

\* battery.diam = x, battery.len = x or battery.year = y
assign_battery ==
    /\ \/ \E x \in {Zero, FInt(10)} : ship' = [ship EXCEPT !.battery.diam = x]
       \/ \E x \in {Zero, FInt(29), FInt(45)} :
              ship' = [ship EXCEPT !.battery.len = x]
       \/ \E y \in {1890, 1920, 1960} : ship' = [ship EXCEPT !.battery.year = y]
    /\ call' = Idle
    /\ UNCHANGED <<hull, engine, ship_year, lastCbD, lastLen>>

call_shell_wgt ==
    /\ call' = Returned("shell_wgt", None, None, Battery_shell_wgt(ship.battery))
    /\ UNCHANGED <<hull, engine, ship_year, ship, lastCbD, lastLen>>

SpecBattery == Init /\ [][set_shell_wgt \/ assign_battery \/ call_shell_wgt]_vars

\* C15: shell_wgt() returns shell_wgt_est() as long as set_shell_wgt has never
\* been called, and after set_shell_wgt(w) it returns exactly w, whatever
\* diam, len and year have been changed to since.
C15_SetWeightSticks ==
    call.op = "shell_wgt" =>
        IF ship.lastShellWgt = None
        THEN call.res = Battery_shell_wgt_est(ship.battery)
        ELSE call.res = ship.lastShellWgt

\* shell_wgt() has returned 100 after set_shell_wgt(100) and later changes of
\* diam, len and year, for which the estimate is 0.
C15_Witness ==
    /\ call.op = "shell_wgt"
    /\ ship.lastShellWgt = FInt(100)
    /\ ship.battery.diam = FInt(10)
    /\ ship.battery.len = FInt(29)
    /\ ship.battery.year = 1960
    /\ Battery_shell_wgt_est(ship.battery) = Zero
    /\ call.res = FInt(100)

(***************************************************************************)
(* Formatting the flag values of an Engine                                  *)
(***************************************************************************)
\* One of the three flag fields holds any combination of its bits.
InitFmt ==
    /\ hull = Hull_default
    /\ engine \in
           {[Engine_default EXCEPT !.fuel = f] :
               f \in SUBSET {"Coal", "Oil", "Diesel", "Gasoline", "Battery", "bit7"}}
           \cup {[Engine_default EXCEPT !.boiler = b] :
               b \in SUBSET {"Simple", "Complex", "Turbine", "bit7"}}
           \cup {[Engine_default EXCEPT !.drive = d] :
               d \in SUBSET {"Direct", "Geared", "Electric", "Hydraulic", "bit7"}}
    /\ ship_year = 0
    /\ ship = Ship_default
    /\ lastCbD = NoSetter
    /\ lastLen = NoSetter
    /\ call = Idle

\* format!("{}", engine.fuel), format!("{}", engine.boiler) and
\* format!("{}", engine.drive); a records the value formatted.
call_fmt ==
    /\ \/ call' = Returned("fmt_fuel", engine.fuel, None, FuelType_fmt(engine.fuel))
       \/ call' = Returned("fmt_boiler", engine.boiler, None,
                           BoilerType_fmt(engine.boiler))
       \/ call' = Returned("fmt_drive", engine.drive, None,
                           DriveType_fmt(engine.drive))
    /\ UNCHANGED <<hull, engine, ship_year, ship, lastCbD, lastLen>>

SpecFmt == InitFmt /\ [][call_fmt]_vars

\* C16: formatting a FuelType, BoilerType or DriveType writes a string for
\* every combination of bits, and for every combination that is not one of
\* the recognised mixes the string begins with "ERROR:".
C16_ErrorFallback ==
    LET recognised ==
            [fmt_fuel |-> {{"Coal"}, {"Oil"}, {"Coal", "Oil"}, {"Coal", "Diesel"},
                           {"Oil", "Diesel"}, {"Coal", "Oil", "Diesel"},
                           {"Diesel"}, {"Diesel", "Battery"}, {"Gasoline"},
                           {"Gasoline", "Battery"}, {"Battery"}},
             fmt_boiler |-> {{"Simple"}, {"Complex"}, {"Turbine"},
                             {"Simple", "Complex"}, {"Simple", "Turbine"}},
             fmt_drive |-> {{"Direct"}, {"Geared"}, {"Electric"}, {"Hydraulic"},
                            {"Geared", "Electric"}}]
    IN call.op \in {"fmt_fuel", "fmt_boiler", "fmt_drive"} =>
           /\ call.res.error \in BOOLEAN
           /\ call.res.text \in STRING
           /\ (call.a \notin recognised[call.op] => call.res.error)

\* A boiler that is both Complex and Turbine has been written as
\* "ERROR: No steam engines".
C16_Witness ==
    /\ call.op = "fmt_boiler"
    /\ call.a = {"Complex", "Turbine"}
    /\ call.res = ErrorText("No steam engines")

(***************************************************************************)
(* The seakeeping formulas of a Ship                                        *)
(***************************************************************************)
InitSea ==
    /\ hull = Hull_default
    /\ engine = Engine_default
    /\ ship_year = 0
    /\ ship \in {[Ship_default EXCEPT !.trim = tr, !.seaboat = sb] :
                    tr \in {0, 13, 25, 50, 100},
                    sb \in {FInt(-1), Zero, Fin(1, 2), One, Fin(21, 20),
                            Fin(3, 2), FInt(2)}}
    /\ lastCbD = NoSetter
    /\ lastLen = NoSetter
    /\ call = Idle

call_steadiness ==
    /\ call' = Returned("steadiness", None, None, Ship_steadiness(ship))
    /\ UNCHANGED <<hull, engine, ship_year, ship, lastCbD, lastLen>>

\* seakeeping() that keeps the value it computed in place of seaboat's.
call_seakeeping_caching ==
    /\ call' = Returned("seakeeping", None, None, Ship_seakeeping(ship))
    /\ ship' = [ship EXCEPT !.seaboat = Ship_seakeeping(ship)]
    /\ UNCHANGED <<hull, engine, ship_year, lastCbD, lastLen>>

call_seakeeping ==
    /\ call' = Returned("seakeeping", None, None, Ship_seakeeping(ship))
    /\ UNCHANGED <<hull, engine, ship_year, ship, lastCbD, lastLen>>

call_type_sea ==
    /\ call' = Returned("type_sea", None, None, Ship_type_sea(ship))
    /\ UNCHANGED <<hull, engine, ship_year, ship, lastCbD, lastLen>>

SpecSea == InitSea /\ [][call_steadiness \/ call_seakeeping \/ call_type_sea]_vars

C18_NoErrorSea ==
    call.op = "type_sea" =>
        call.res.name \in {"BadSea", "PoorSea", "GoodSea", "FineSea"}

\* type_sea() has returned Error on a ship of trim 13 whose seaboat() is 2:
\* its seakeeping() is 1.04.
C18_Witness ==
    /\ call.op = "type_sea"
    /\ ship.trim = 13
    /\ ship.seaboat = FInt(2)
    /\ Ship_seakeeping(ship) = Fin(104, 100)
    /\ call.res.name = "Error"

(***************************************************************************)
(* mounts_fwd on the eighteen distribution types                            *)
(***************************************************************************)
MaxTot == 6

\* A mounts_fwd(tot, fwd_len) call of one distribution type, not yet
\* evaluated.
InitMounts ==
    /\ hull = Hull_default
    /\ engine = Engine_default
    /\ ship_year = 0
    /\ ship \in {[Ship_default EXCEPT !.sub.distribution = dist] :
                    dist \in {"CenterlineEven", "CenterlineEndsFD",
                              "CenterlineEndsAD", "CenterlineFDFwd", "CenterlineFD",
                              "CenterlineFDAft", "CenterlineADFwd", "CenterlineAD",
                              "CenterlineADAft", "SidesEven", "SidesEndsFD",
                              "SidesEndsAD", "SidesFDFwd", "SidesFD", "SidesFDAft",
                              "SidesADFwd", "SidesAD", "SidesADAft"}}
    /\ lastCbD = NoSetter
    /\ lastLen = NoSetter
    /\ call \in {Returned("mounts_fwd_args", tot, fwd_len, None) :
                    tot \in 0..MaxTot,
                    fwd_len \in {NaN, FInt(-1), Zero, Fin(4, 10), Fin(1, 2), One}}

\* self.distribution.mounts_fwd(tot, fwd_len); a and b record the arguments.
call_mounts_fwd ==
    /\ call.op = "mounts_fwd_args"
    /\ call' = Returned("mounts_fwd", call.a, call.b,
                        GunDistributionType_mounts_fwd(ship.sub.distribution,
                                                       call.a, call.b))
    /\ UNCHANGED <<hull, engine, ship_year, ship, lastCbD, lastLen>>

SpecMounts == InitMounts /\ [][call_mounts_fwd]_vars

\* C19: mounts_fwd(tot, fwd_len) lies in 0..tot; it is tot for the FDFwd, FD
\* and FDAft types and for CenterlineADFwd, 0 for CenterlineAD,
\* CenterlineADAft, SidesADFwd, SidesAD and SidesADAft, ceil(tot/2) for the
\* EndsFD types and for the Even types when fwd_len >= 0.5, and floor(tot/2)
\* for the EndsAD types and for the Even types when fwd_len < 0.5.
C19_MountsForward ==
    call.op = "mounts_fwd" =>
        LET dist == ship.sub.distribution
            tot  == call.a
            ceil  == (tot + 1) \div 2
            floor == tot \div 2
        IN /\ call.res \in 0..tot
           /\ (dist \in {"CenterlineFDFwd", "CenterlineFD", "CenterlineFDAft",
                         "SidesFDFwd", "SidesFD", "SidesFDAft", "CenterlineADFwd"}
               => call.res = tot)
           /\ (dist \in {"CenterlineAD", "CenterlineADAft", "SidesADFwd",
                         "SidesAD", "SidesADAft"} => call.res = 0)
           /\ (dist \in {"CenterlineEndsFD", "SidesEndsFD"} => call.res = ceil)
           /\ (dist \in {"CenterlineEndsAD", "SidesEndsAD"} => call.res = floor)
           /\ (dist \in {"CenterlineEven", "SidesEven"} =>
                   /\ (FGe(call.b, Fin(1, 2)) => call.res = ceil)
                   /\ (FLt(call.b, Fin(1, 2)) => call.res = floor))

\* mounts_fwd(3, 0.5) of SidesEven has returned 2, the half of 3 rounded up.
C19_Witness ==
    /\ call.op = "mounts_fwd"
    /\ ship.sub.distribution = "SidesEven"
    /\ call.a = 3
    /\ call.b = Fin(1, 2)
    /\ call.res = 2

(***************************************************************************)
(* Ship::convert on the mount counts of one battery                         *)
(***************************************************************************)
\* Ship::convert(p): the counts of one battery as the file gives them.  A
\* panic returns no ship.
convert ==
    \E mn \in {U32(0, 0), U32(0, 1), U32(0, 4), U32(1, MaxI32)},
       a0 \in {U32(0, 0), U32(0, 1), U32(0, 2)}, b0 \in {U32(0, 0), U32(0, 1)},
       a1 \in {U32(0, 0), U32(0, 1)}, b1 \in {U32(0, 0), U32(0, 1)},
       checks \in BOOLEAN :
        \E b \in {Ship_convert_battery(
                      [mount_num |-> mn, above0 |-> a0, below0 |-> b0,
                       above1 |-> a1, below1 |-> b1, shell_wgt |-> FInt(100)],
                      checks)} :
            IF b = Panic
            THEN /\ call' = Returned("convert", None, None, Panic)
                 /\ UNCHANGED <<hull, engine, ship_year, ship, lastCbD, lastLen>>
            ELSE /\ call' = Returned("convert", None, None, None)
                 /\ ship' = [ship EXCEPT !.battery = b,
                                         !.lastShellWgt = FInt(100)]
                 /\ UNCHANGED <<hull, engine, ship_year, lastCbD, lastLen>>

SpecConvert == Init /\ [][convert]_vars

\* C20: in a battery of a ship that Ship::convert returned, the above, on
\* and below counts of both groups sum exactly to mount_num.
C20_CountsSum ==
    (call.op = "convert" /\ call.res # Panic) =>
        LET b == ship.battery
            \* x + y for naturals below 2^32; top = 2 stands for 2^32 or more
            over == U32(2, 0)
            plus(x, y) ==
                IF x.top = 2 THEN over
                ELSE IF x.low <= MaxI32 - y.low
                     THEN (IF x.top + y.top > 1 THEN over
                           ELSE U32(x.top + y.top, x.low + y.low))
                     ELSE (IF x.top + y.top > 0 THEN over
                           ELSE U32(1, (x.low - MaxI32) + (y.low - 1)))
        IN plus(plus(plus(plus(plus(b.groups[1].above, b.groups[1].on),
                               b.groups[1].below),
                          b.groups[2].above), b.groups[2].on),
                b.groups[2].below) = b.mount_num

\* Ship::convert has returned a battery of 1 mount with 2 mounts above the
\* deck in group 0 and 2^32 - 1 on it.
C20_Witness ==
    /\ call.op = "convert"
    /\ call.res = None
    /\ ship.battery.mount_num = U32(0, 1)
    /\ ship.battery.groups[1].above = U32(0, 2)
    /\ ship.battery.groups[1].below = U32(0, 0)
    /\ ship.battery.groups[2].above = U32(0, 0)
    /\ ship.battery.groups[2].below = U32(0, 0)
    /\ ship.battery.groups[1].on = U32(1, MaxI32)

\* C21: a belt with zero thickness weighs exactly 0 for every belt kind and
\* every lwl, cwp and b, including lwl = 0 and belts longer than lwl.
C21_ZeroThickWeightless ==
    (call.op = "belt_wgt" /\ ship.belt.thick = Zero) => call.res = Zero

\* wgt(0, 0.5, 10) of the Main belt of Armor::default() has returned NaN:
\* len / lwl is 0 / 0.
C21_Witness ==
    /\ call.op = "belt_wgt"
    /\ ship.belt = Belt_new("Main")
    /\ call.a = <<Zero, Fin(1, 2), FInt(10)>>
    /\ call.res = NaN

(***************************************************************************)
(* The boxy flag of the Hull beside the operations that change a ship       *)
(***************************************************************************)
\* hull.boxy = x
assign_boxy ==
    \E x \in BOOLEAN :
        /\ hull' = [hull EXCEPT !.boxy = x]
        /\ call' = Returned("assign_boxy", x, None, None)
        /\ UNCHANGED <<engine, ship_year, ship, lastCbD, lastLen>>

\* engine.set_shafts(shafts, &mut hull)
set_shafts ==
    \E shafts \in {0, 1, 2, 4} :
        \E r \in {Engine_set_shafts(engine, hull, shafts)} :
            /\ hull' = r.hull
            /\ engine' = r.engine
            /\ call' = Returned("set_shafts", shafts, None, r.res)
            /\ UNCHANGED <<ship_year, ship, lastCbD, lastLen>>

SpecBoxy ==
    Init /\ [][assign_boxy \/ set_shafts \/ set_lwl \/ set_shell_wgt
               \/ call_type_sea]_vars

InitFreeboard ==
    /\ hull \in {[Hull_default EXCEPT !.fc_aft = v[1], !.fd_fwd = v[2],
                                      !.fd_aft = v[3], !.ad_fwd = v[4],
                                      !.ad_aft = v[5], !.qd_fwd = v[6]] :
                    v \in [1..6 -> {Zero, FInt(10), NaN}]}
    /\ engine = Engine_default
    /\ ship_year = 0
    /\ ship = Ship_default
    /\ lastCbD = NoSetter
    /\ lastLen = NoSetter
    /\ call = Idle

call_freeboard_desc ==
    /\ call' = Returned("freeboard_desc", None, None,
                        Text(Hull_freeboard_desc(hull)))
    /\ UNCHANGED <<hull, engine, ship_year, ship, lastCbD, lastLen>>

SpecFreeboard ==
    InitFreeboard /\ [][call_freeboard_desc \/ assign_fc_fwd \/ assign_boxy]_vars

\* C23 as stated: freeboard_desc() returns "flush deck" exactly when
\* fc_aft = fd_fwd, fd_aft = ad_fwd and ad_aft = qd_fwd, and a non-empty
\* text otherwise.
C23_FlushOrNonEmpty ==
    call.op = "freeboard_desc" =>
        /\ call.res.text = "flush deck" <=>
               (/\ FEq(hull.fc_aft, hull.fd_fwd)
                /\ FEq(hull.fd_aft, hull.ad_fwd)
                /\ FEq(hull.ad_aft, hull.qd_fwd))
        /\ call.res.text # ""

\* C23: freeboard_desc() returns "flush deck" exactly when the three pairs
\* of heights are equal; otherwise it returns the descriptors of the breaks
\* whose heights are ordered and unequal, at most one per break, in the
\* order forecastle, midbreak, quarterdeck, joined by ", ": an empty text
\* exactly when every unequal break has a NaN height.  The text is that of
\* the hull which has these six heights and the default in every other field.
C23_BreaksInOrder ==
    call.op = "freeboard_desc" =>
        LET brk(a, b, up, down) ==
                IF FGt(a, b) THEN <<up>> ELSE IF FLt(a, b) THEN <<down>> ELSE <<>>
            fc == brk(hull.fc_aft, hull.fd_fwd,
                      "raised forecastle", "low forecastle")
            md == brk(hull.fd_aft, hull.ad_fwd,
                      "rise forward of midbreak", "rise aft of midbreak")
            qd == brk(hull.ad_aft, hull.qd_fwd,
                      "low quarterdeck", "raised quarterdeck")
            flush == /\ FEq(hull.fc_aft, hull.fd_fwd)
                     /\ FEq(hull.fd_aft, hull.ad_fwd)
                     /\ FEq(hull.ad_aft, hull.qd_fwd)
            parts == fc \o md \o qd
        IN /\ call.res.text = "flush deck" <=> flush
           /\ ~flush =>
                  /\ call.res.text =
                         (IF parts = <<>> THEN ""
                          ELSE IF Len(parts) = 1 THEN parts[1]
                          ELSE IF Len(parts) = 2 THEN parts[1] \o ", " \o parts[2]
                          ELSE parts[1] \o ", " \o parts[2] \o ", " \o parts[3])
                  /\ call.res.text = "" <=>
                         \A pr \in {<<hull.fc_aft, hull.fd_fwd>>,
                                    <<hull.fd_aft, hull.ad_fwd>>,
                                    <<hull.ad_aft, hull.qd_fwd>>} :
                             FEq(pr[1], pr[2]) \/ ~Ordered(pr[1], pr[2])
           /\ call.res.text =
                  Hull_freeboard_desc(
                      [Hull_default EXCEPT !.fc_aft = hull.fc_aft,
                           !.fd_fwd = hull.fd_fwd, !.fd_aft = hull.fd_aft,
                           !.ad_fwd = hull.ad_fwd, !.ad_aft = hull.ad_aft,
                           !.qd_fwd = hull.qd_fwd])

\* freeboard_desc() has returned all three descriptors for a hull that is
\* boxy and whose fc_fwd is not the default.
C23_Witness ==
    /\ call.op = "freeboard_desc"
    /\ hull.boxy
    /\ hull.fc_fwd = FInt(10)
    /\ call.res.text = "low forecastle, rise forward of midbreak, raised quarterdeck"

(***************************************************************************)
(* The two strength figures of ships of several years                       *)
(***************************************************************************)
InitStr ==
    /\ hull = Hull_default
    /\ engine = Engine_default
    /\ ship_year \in {1700, 1800, 1801, 1850, 1899, 1900, 1920}
    /\ ship \in {[Ship_default EXCEPT !.str_cross_raw = c, !.str_long_raw = l] :
                    c \in {Zero, Fin(1, 2), FInt(2)},
                    l \in {Zero, Fin(1, 1000), Fin(1, 500)}}
    /\ lastCbD = NoSetter
    /\ lastLen = NoSetter
    /\ call = Idle

call_str_cross ==
    /\ call' = Returned("str_cross", None, None, Ship_str_cross(ship, ship_year))
    /\ UNCHANGED <<hull, engine, ship_year, ship, lastCbD, lastLen>>

call_str_long ==
    \E checks \in BOOLEAN :
        /\ call' = Returned("str_long", None, None,
                            Ship_str_long(ship, ship_year, checks))
        /\ UNCHANGED <<hull, engine, ship_year, ship, lastCbD, lastLen>>

SpecStr == InitStr /\ [][call_str_cross \/ call_str_long]_vars

\* C24: str_long() and str_cross() apply the same year reduction: for a year
\* before 1900 each is its unscaled value times 1 - (1900 - year)/100, a
\* fraction strictly between 0 and 1 for the years 1801 to 1899; from 1900
\* on each is its unscaled value.
C24_SameYearScale ==
    \E f \in {IF ship_year < 1900 THEN Fin(100 - (1900 - ship_year), 100)
              ELSE One} :
        /\ (ship_year >= 1801 /\ ship_year <= 1899) => FLt(Zero, f) /\ FLt(f, One)
        /\ call.op = "str_cross" => call.res = FMul(ship.str_cross_raw, f)
        /\ call.op = "str_long" =>
               call.res = FMul(FMul(ship.str_long_raw, FInt(850)), f)

\* str_long() of a ship of 1850 has returned its unscaled 1.7, not 0.85.
C24_Witness ==
    /\ call.op = "str_long"
    /\ ship_year = 1850
    /\ ship.str_long_raw = Fin(1, 500)
    /\ call.res = Fin(17, 10)

(***************************************************************************)
(* free() of the eighteen distribution types on hulls with their decks set  *)
(***************************************************************************)
\* The hull of test_free and its neighbours; a free(num_mounts, hull) call
\* of one distribution type, not yet evaluated.
InitFree ==
    /\ hull \in {[Hull_default EXCEPT !.fc_len = fc, !.fd_len = Fin(3, 10),
                                      !.fd_fwd = FInt(10), !.fd_aft = fa,
                                      !.ad_fwd = FInt(20), !.ad_aft = aa] :
                    fc \in {Fin(1, 10), Fin(2, 10)}, fa \in {Zero, FInt(4)},
                    aa \in {Zero, FInt(6)}}
    /\ engine = Engine_default
    /\ ship_year = 0
    /\ ship \in {[Ship_default EXCEPT !.sub.distribution = dist] :
                    dist \in {"CenterlineEven", "CenterlineEndsFD",
                              "CenterlineEndsAD", "CenterlineFDFwd", "CenterlineFD",
                              "CenterlineFDAft", "CenterlineADFwd", "CenterlineAD",
                              "CenterlineADAft", "SidesEven", "SidesEndsFD",
                              "SidesEndsAD", "SidesFDFwd", "SidesFD", "SidesFDAft",
                              "SidesADFwd", "SidesAD", "SidesADAft"}}
    /\ lastCbD = NoSetter
    /\ lastLen = NoSetter
    /\ call \in {Returned("free_args", num, None, None) : num \in 0..MaxTot}

\* self.distribution.free(num_mounts, hull); a records num_mounts, b what
\* mounts_fwd returned inside it.
call_free ==
    /\ call.op = "free_args"
    /\ \E fwd \in {GunDistributionType_mounts_fwd(
                       ship.sub.distribution, call.a,
                       FAdd(hull.fc_len, hull.fd_len))} :
           call' = Returned("free", call.a, I32(fwd),
                            GunDistributionType_free(ship.sub.distribution,
                                                     call.a, fwd, hull))
    /\ UNCHANGED <<hull, engine, ship_year, ship, lastCbD, lastLen>>

SpecFree == InitFree /\ [][call_free]_vars

InitType ==
    /\ hull \in {[Hull_set_lwl(Hull_default, FInt(500)) EXCEPT
                     !.b = FInt(10), !.fc_len = fc, !.fd_len = Fin(3, 10)] :
                    fc \in {Fin(1, 10), Fin(2, 10)}}
    /\ engine = Engine_default
    /\ ship_year = 0
    /\ ship \in {[Ship_default EXCEPT
                     !.cwp = Fin(1, 2),
                     !.armor.main.thick = th, !.armor.main.len = FInt(100),
                     !.armor.main.hgt = FInt(10),
                     !.batteries[1].mount_kind = k[1],
                     !.batteries[2].mount_kind = k[2],
                     !.batteries[3].mount_kind = k[3],
                     !.batteries[1].armor_face = af,
                     !.batteries[1].groups[1].below = U32(0, bl[1]),
                     !.batteries[1].groups[2].below = U32(bl[2], 0),
                     !.batteries[2].groups[1].below = U32(0, bl[3]),
                     !.batteries[2].groups[2].below = U32(0, bl[4])] :
                    th \in {Zero, One}, af \in {Zero, One},
                    k \in {<<"Deck", "Deck", "Deck">>,
                           <<"Broadside", "Deck", "Deck">>,
                           <<"Deck", "Broadside", "Deck">>,
                           <<"OpenBarbette", "Deck", "Broadside">>},
                    bl \in [1..4 -> {0, 1}]}
    /\ lastCbD = NoSetter
    /\ lastLen = NoSetter
    /\ call = Idle

call_ship_type ==
    \E checks \in BOOLEAN :
        /\ call' = Returned("ship_type", None, None,
                            Ship_ship_type(ship, hull, checks))
        /\ UNCHANGED <<hull, engine, ship_year, ship, lastCbD, lastLen>>

SpecType == InitType /\ [][call_ship_type]_vars

\* C26: in ship_type() a battery counts as broadside with mounts below the
\* waterline by its own mount kind and the below counts of its own two
\* groups: the line says Frigate when one of the first three batteries is
\* such a battery and Corvette when none is, so that main.groups[1].below
\* does not change the label of a ship whose main battery is not Broadside.
C26_OwnBelowOnly ==
    (call.op = "ship_type" /\ call.res # Panic) =>
        LET own(b) == /\ b.mount_kind = "Broadside"
                      /\ \/ b.groups[1].below # U32(0, 0)
                         \/ b.groups[2].below # U32(0, 0)
            lines(labels) ==
                {Join(pre \o <<l>>, "\n") :
                    pre \in {<<>>, <<"Barbette Ship">>}, l \in labels}
        IN /\ call.res.text \in lines({"Armoured Frigate (Broadside Ironclad)",
                                       "Armoured Frigate (Central Battery Ironclad)",
                                       "Frigate (Unarmoured)"})
               => \E i \in 1..3 : own(ship.batteries[i])
           /\ call.res.text \in lines({"Armoured Corvette (Broadside Ironclad)",
                                       "Armoured Corvette (Central Battery Ironclad)",
                                       "Corvette (Unarmoured)"})
               => ~ \E i \in 1..3 : own(ship.batteries[i])

\* ship_type() has called a ship a frigate whose only broadside battery, the
\* secondary, has no mount below the waterline: the second group of the main
\* battery, which is on deck, has 2^31.
C26_Witness ==
    /\ call.op = "ship_type"
    /\ call.res = Text("Frigate (Unarmoured)")
    /\ ship.batteries[1].mount_kind = "Deck"
    /\ ship.batteries[1].groups[2].below = U32(1, 0)
    /\ ship.batteries[2].mount_kind = "Broadside"
    /\ ship.batteries[2].groups[1].below = U32(0, 0)
    /\ ship.batteries[2].groups[2].below = U32(0, 0)

(***************************************************************************)
(* The belt weights of armoured ships, as stability() and Armor::wgt take   *)
(* them                                                                     *)
(***************************************************************************)
\* Hulls whose length and displacement are set, one of them with both 500;
\* belts of 100 ft by 10 ft, each an inch thick or absent.
InitArmor ==
    /\ hull \in {[Hull_set_d(Hull_set_lwl(Hull_default, lwl), d) EXCEPT
                     !.b = FInt(10)] :
                    lwl \in {FInt(400), FInt(500)}, d \in {FInt(500), FInt(2500)}}
    /\ engine = Engine_default
    /\ ship_year = 0
    /\ ship \in {[Ship_default EXCEPT
                     !.cwp = cwp,
                     !.armor.main.thick = th[1], !.armor.main.len = FInt(100),
                     !.armor.main.hgt = FInt(10),
                     !.armor.end.thick = th[2], !.armor.end.len = FInt(100),
                     !.armor.end.hgt = FInt(10),
                     !.armor.upper.thick = th[3], !.armor.upper.len = FInt(100),
                     !.armor.upper.hgt = FInt(10)] :
                    cwp \in {Fin(1, 2), One}, th \in [1..3 -> {Zero, One}]}
    /\ lastCbD = NoSetter
    /\ lastLen = NoSetter
    /\ call = Idle

\* self.armor.wgt(self.hull.clone(), ..)
call_armor_wgt ==
    /\ call' = Returned("armor_wgt", None, None,
                        Armor_wgt_belts(ship.armor, hull, ship.cwp))
    /\ UNCHANGED <<hull, engine, ship_year, ship, lastCbD, lastLen>>

call_stability ==
    /\ call' = Returned("stability", None, None, Ship_stability_belts(ship, hull))
    /\ UNCHANGED <<hull, engine, ship_year, ship, lastCbD, lastLen>>

SpecArmor == InitArmor /\ [][call_armor_wgt \/ call_stability]_vars

\* C27: the main, end and upper belt weights used inside stability() are
\* Belt::wgt with the hull's waterline length as lwl: the values that
\* Armor::wgt sums, and whose sum ship_type() tests.
C27_BeltsByWaterline ==
    call.op = "stability" =>
        /\ call.res = Armor_wgt_belts(ship.armor, hull, ship.cwp)
        /\ FAdd(FAdd(call.res.main, call.res.end), call.res.upper)
               = Ship_belt_sum(ship, hull)
        /\ \A bt \in {"main", "end", "upper"} :
               call.res[bt] = Belt_wgt(ship.armor[bt], Hull_lwl(hull), ship.cwp,
                                       hull.b)

\* stability() has weighed the main belt of a hull of 400 ft and 2500 t at
\* (100 + sqrt(1 - 100/2500) * 10) * 10 * 0.0185 * 2, Armor::wgt weighs it at
\* (100 + sqrt(1 - 100/400) * 10) * 10 * 0.0185 * 2.
C27_Witness ==
    /\ call.op = "stability"
    /\ Hull_lwl(hull) = FInt(400)
    /\ Hull_d(hull) = FInt(2500)
    /\ ship.cwp = Fin(1, 2)
    /\ ship.armor.main.thick = One
    /\ call.res.main = Belt_wgt(ship.armor.main, FInt(2500), Fin(1, 2), FInt(10))
    /\ call.res.main # Belt_wgt(ship.armor.main, FInt(400), Fin(1, 2), FInt(10))

(***************************************************************************)
(* cap_calc_broadside() on battery lists with and without unarmed batteries *)
(***************************************************************************)
\* Up to two batteries of four guns, on the broadside or on deck, followed
\* by up to three batteries as Battery::default() makes them.
InitCap ==
    /\ hull = Hull_default
    /\ engine = Engine_default
    /\ ship_year = 0
    /\ ship \in
           LET gun(kind, b0, b1) ==
                   [Battery_default EXCEPT
                       !.num = U32(0, 4), !.mount_num = U32(0, 4),
                       !.mount_kind = kind,
                       !.groups[1].below = U32(0, b0),
                       !.groups[2].below = U32(0, b1)]
               guns == {gun("Broadside", 4, 0), gun("Broadside", 0, 4),
                        gun("Broadside", 0, 0), gun("Deck", 0, 0)}
               armed == {<<>>} \cup {<<g>> : g \in guns}
                               \cup {<<g, h>> : g \in guns, h \in guns}
           IN {[Ship_default EXCEPT
                   !.batteries = a \o [i \in 1..n |-> Battery_default]] :
                  a \in armed, n \in 0..3}
    /\ lastCbD = NoSetter
    /\ lastLen = NoSetter
    /\ call = Idle

call_cap_calc_broadside ==
    /\ call' = Returned("cap_calc_broadside", None, None,
                        [k |-> "bool", v |-> Ship_cap_calc_broadside(ship)])
    /\ UNCHANGED <<hull, engine, ship_year, ship, lastCbD, lastLen>>

SpecCap == InitCap /\ [][call_cap_calc_broadside]_vars

\* C28: cap_calc_broadside() returns what it returns for the same ship
\* without its unarmed batteries (those with num = 0 and mount_num = 0).
C28_UnarmedIgnored ==
    call.op = "cap_calc_broadside" =>
        LET armed(b) == ~(b.num = U32(0, 0) /\ b.mount_num = U32(0, 0))
        IN call.res.v =
               Ship_cap_calc_broadside(
                   [ship EXCEPT !.batteries = SelectSeq(@, armed)])

\* cap_calc_broadside() has returned false for a ship whose one armed
\* battery is on the broadside with mounts below the waterline and which
\* carries one default battery beside it.
C28_Witness ==
    /\ call.op = "cap_calc_broadside"
    /\ Len(ship.batteries) = 2
    /\ Battery_broad_and_below(ship.batteries[1])
    /\ ship.batteries[2] = Battery_default
    /\ call.res.v = FALSE

(***************************************************************************)
(* The year adjustment of early and late years, in date_factor and in       *)
(* flotation()                                                              *)
(***************************************************************************)
InitFlot ==
    /\ hull = Hull_default
    /\ engine = Engine_default
    /\ ship_year \in {0, 1823, 1824, 1889, 1890, 1950, 1951, MaxI32}
    /\ ship \in {[Ship_default EXCEPT !.battery.year = y, !.flotation_raw = e] :
                    y \in {0, 1823, 1824, 1890, 1920, 1951},
                    e \in {FInt(-1), Zero, FInt(2)}}
    /\ lastCbD = NoSetter
    /\ lastLen = NoSetter
    /\ call = Idle

call_date_factor ==
    /\ call' = Returned("date_factor", None, None,
                        Battery_date_factor(ship.battery))
    /\ UNCHANGED <<hull, engine, ship_year, ship, lastCbD, lastLen>>

call_flotation ==
    /\ call' = Returned("flotation", None, None, Ship_flotation(ship, ship_year))
    /\ UNCHANGED <<hull, engine, ship_year, ship, lastCbD, lastLen>>

SpecFlot ==
    InitFlot /\ [][call_year_adj \/ call_date_factor \/ call_flotation]_vars

\* C29: year_adj(year) lies in [0, 1] for every year, so that date_factor,
\* its square root, is a number that is not negative, and the product of
\* flotation() has the sign of its first factor: a positive e is not clamped.
C29_UnitRange ==
    /\ call.op = "year_adj" => FLe(Zero, call.res) /\ FLe(call.res, One)
    /\ call.op = "date_factor" => FGe(call.res, Zero)
    /\ (call.op = "flotation" /\ FGt(ship.flotation_raw, Zero)) =>
           /\ FGe(FMul(ship.flotation_raw, Ship_year_adj(ship_year)), Zero)
           /\ call.res = FMul(ship.flotation_raw, Ship_year_adj(ship_year))

\* date_factor() of a gun of 1823 has returned NaN: year_adj(1823) is
\* 1 - 67/66.666664, which is negative.
C29_Witness ==
    /\ call.op = "date_factor"
    /\ ship.battery.year = 1823
    /\ FLt(Ship_year_adj(1823), Zero)
    /\ call.res = NaN

====
